---------------------------- MODULE Spec2Model ----------------------------
(***************************************************************************)
(* A model of curious.core.client.Client: the per-shard connect / consume  *)
(* / reconnect loop (handle_shard), the ready gate (fire_event) and the    *)
(* dispatch translation step (handle_dispatches).                          *)
(*                                                                         *)
(* Python strings on which the code performs string operations (lower(),   *)
(* startswith(), f-string concatenation) are sequences of one-character    *)
(* strings.  Strings that are only compared for equality are TLA+ strings. *)
(***************************************************************************)
EXTENDS Integers, Sequences, FiniteSets, TLC

VARIABLES
    pc,                   \* position of the handle_shard coroutine
    total_tries,          \* handle_shard local: total_tries
    failed_connects,      \* history: Gateway.from_token failures since the last success
    gw_count,             \* history: number of Gateway objects built by Gateway.from_token
    gw,                   \* handle_shard local: gw (0 = not yet bound)
    gateways,             \* Client._gateways[shard_id] (0 = no entry)
    session_id,           \* gw.session_id is not None
    ready,                \* state.is_ready(shard_id)
    last_event,           \* history: the last fire_event call on the current stream
    last_end,             \* history: how the dispatch stream last ended
    calls,                \* history: calls made by handle_shard since the stream last ended
    error,                \* the exception that left handle_shard ("" = none)
    dispatches_handled,   \* _dispatches_handled of the gateway in self._gateways
    handled_total,        \* history: the dispatches handled by all gateways since the start
    ended_gws,            \* history: the gateways whose events() stream has ended
    d_pc,                 \* position of one handle_dispatches coroutine
    d_name,               \* handle_dispatches argument: name
    d_routine,            \* what the state layer's routine for the dispatch does
    d_result,             \* handle_dispatches local: result
    d_pos,                \* number of items taken from the routine's async generator
    d_fired,              \* history: the EventManager.fire_event calls, in order
    d_raised,             \* history: the exception raised inside the try block ("" = none)
    d_error,              \* the exception that left handle_dispatches ("" = none)
    d_closed,             \* the close call made on ctx.gateway (code 0 = none)
    d_chunks,             \* number of ctx.gateway._get_chunks() calls
    m_pc,                 \* position of one download_guild_members call
    m_sizes,              \* the sizes of the pages the member source answers with
    m_limit,              \* download_guild_members argument: limit
    m_get_all,            \* download_guild_members argument: get_all
    m_after,              \* download_guild_members argument: after (-1 = None)
    m_last_id,            \* download_guild_members local: last_id
    m_member_data,        \* download_guild_members local: member_data
    m_requests,           \* history: the http.get_guild_members calls, in order
    m_members,            \* the members returned, in order
    m_source,             \* how the member source answers: "script" (pages of m_sizes) or "cursor" (members of m_guild)
    m_guild,              \* the member ids of the guild the cursor-driven source holds
    p_pc,                 \* position of one edit_profile call
    p_username,           \* edit_profile argument: username (given = is not None)
    p_is_bot,             \* self.user.bot
    p_password,           \* edit_profile argument: password is not None
    p_avatar,             \* edit_profile argument: avatar is given
    p_error,              \* the message of the ValueError edit_profile raised ("" = none)
    p_edits,              \* history: the http.edit_user calls
    c_pc,                 \* position of one Client.__init__ call
    c_bot_type,           \* __init__ argument: bot_type
    c_error,              \* the exception __init__ raised ("" = none)
    c_http,               \* self.http: whether it is built, and its bot mode
    c_handlers,           \* the event names registered on self.events
    s_pc,                 \* position of one start call
    s_bot_type,           \* self.bot_type
    s_shard_count,        \* start argument: shard_count
    s_app_info_requests,  \* history: number of http.get_app_info calls
    s_application_info,   \* self.application_info is set
    s_task_manager,       \* self.events.task_manager is set
    s_spawned,            \* history: the shard ids of the handle_shard tasks spawned, in order
    s_error,              \* the exception that left start ("" = none)
    u_pc,                 \* position of the get_user call
    u_users,              \* state._users: the ids in the user pool
    u_members,            \* the cached members, as <<guild id, user id>>
    u_id,                 \* get_user argument: user_id (0 = no call yet)
    u_in_pool,            \* history: user_id was in the pool when get_user was called
    u_requests,           \* history: http.get_user calls of this get_user call
    u_calls,              \* number of get_user calls so far
    g_pc,                 \* position of one download_guild call
    g_guild_id,           \* download_guild argument: guild_id
    g_full,               \* download_guild argument: full
    g_guilds,             \* state._guilds
    g_before,             \* history: state._guilds when download_guild was called
    g_log,                \* history: the HTTP request and the downloads of this call, in order
    g_result,             \* the guild returned (NoGuild = none yet)
    g_error,              \* the exception that left download_guild ("" = none)
    it_coro,              \* self.coro: "created", "finished", "failed" ("none" = no wrapper)
    it_result,            \* what the wrapped coroutine returns when it runs
    it_filled,            \* self._filled
    it_items,             \* self.items
    it_fetches,           \* history: the number of times the wrapped coroutine ran
    it_requests,          \* history: the number of __anext__ calls
    it_delivered,         \* history: the elements returned by __anext__, in order
    it_stops,             \* history: the number of StopAsyncIteration raised
    it_errors,            \* history: the number of other exceptions that left __anext__
    e_pc,                 \* position of one read of emoji.roles
    e_guilds,             \* the ids of the guilds in self._bot.guilds
    e_guild_id,           \* emoji.guild_id (0 = None)
    e_role_cache,         \* the role ids in the roles cache of the emoji's guild
    e_role_ids,           \* emoji.role_ids
    e_result,             \* the list emoji.roles returned
    e_error,              \* the exception emoji.roles raised ("" = none)
    o_dispatches,         \* what the routine of each dispatch the gateway delivers returns, in delivery order
    o_ready,              \* state.is_ready(gateway.shard_id)
    o_delivered,          \* number of dispatches handle_shard has taken from the stream
    o_tasks,              \* position of the handle_dispatches task of each dispatch
    o_left,               \* items the async generator of each dispatch has still to yield
    o_fired,              \* history: for each derived event fired, the dispatch it came from, in firing order
    w_run,                \* position of run_async
    w_autoshard,          \* run_async argument: autoshard
    w_shard_count,        \* the number of shards started
    w_gw_url,             \* self._gw_url is set
    w_pc,                 \* position of each shard task around its get_gateway_url call
    w_calls,              \* number of get_gateway_url calls of each shard
    w_requests,           \* history: number of http.get_gateway_url requests
    w_late_requests       \* history: requests issued while self._gw_url was set

shard_vars ==
    <<pc, total_tries, failed_connects, gw_count, gw, gateways, session_id,
      ready, last_event, last_end, calls, error, dispatches_handled,
      handled_total, ended_gws>>

dispatch_vars ==
    <<d_pc, d_name, d_routine, d_result, d_pos, d_fired, d_raised, d_error,
      d_closed, d_chunks>>

members_vars ==
    <<m_pc, m_sizes, m_limit, m_get_all, m_after, m_last_id, m_member_data,
      m_requests, m_members, m_source, m_guild>>

profile_vars ==
    <<p_pc, p_username, p_is_bot, p_password, p_avatar, p_error, p_edits>>

construct_vars ==
    <<c_pc, c_bot_type, c_error, c_http, c_handlers>>

start_vars ==
    <<s_pc, s_bot_type, s_shard_count, s_app_info_requests,
      s_application_info, s_task_manager, s_spawned, s_error>>

users_vars ==
    <<u_pc, u_users, u_members, u_id, u_in_pool, u_requests, u_calls>>

guild_vars ==
    <<g_pc, g_guild_id, g_full, g_guilds, g_before, g_log, g_result, g_error>>

iter_vars ==
    <<it_coro, it_result, it_filled, it_items, it_fetches, it_requests,
      it_delivered, it_stops, it_errors>>

emoji_vars ==
    <<e_pc, e_guilds, e_guild_id, e_role_cache, e_role_ids, e_result,
      e_error>>

overlap_vars ==
    <<o_dispatches, o_ready, o_delivered, o_tasks, o_left, o_fired>>

url_vars ==
    <<w_run, w_autoshard, w_shard_count, w_gw_url, w_pc, w_calls, w_requests,
      w_late_requests>>

vars ==
    <<shard_vars, dispatch_vars, members_vars, profile_vars, construct_vars,
      start_vars, users_vars, guild_vars, iter_vars, emoji_vars,
      overlap_vars, url_vars>>

\* Everything but shard_vars.
non_shard_vars ==
    <<dispatch_vars, members_vars, profile_vars, construct_vars, start_vars,
      users_vars, guild_vars, iter_vars, emoji_vars, overlap_vars, url_vars>>

\* Everything but dispatch_vars.
non_dispatch_vars ==
    <<shard_vars, members_vars, profile_vars, construct_vars, start_vars,
      users_vars, guild_vars, iter_vars, emoji_vars, overlap_vars, url_vars>>

\* Everything but members_vars.
non_members_vars ==
    <<shard_vars, dispatch_vars, profile_vars, construct_vars, start_vars,
      users_vars, guild_vars, iter_vars, emoji_vars, overlap_vars, url_vars>>

\* Everything but profile_vars.
non_profile_vars ==
    <<shard_vars, dispatch_vars, members_vars, construct_vars, start_vars,
      users_vars, guild_vars, iter_vars, emoji_vars, overlap_vars, url_vars>>

\* Everything but construct_vars.
non_construct_vars ==
    <<shard_vars, dispatch_vars, members_vars, profile_vars, start_vars,
      users_vars, guild_vars, iter_vars, emoji_vars, overlap_vars, url_vars>>

\* Everything but start_vars.
non_start_vars ==
    <<shard_vars, dispatch_vars, members_vars, profile_vars, construct_vars,
      users_vars, guild_vars, iter_vars, emoji_vars, overlap_vars, url_vars>>

\* Everything but users_vars.
non_users_vars ==
    <<shard_vars, dispatch_vars, members_vars, profile_vars, construct_vars,
      start_vars, guild_vars, iter_vars, emoji_vars, overlap_vars, url_vars>>

\* Everything but guild_vars.
non_guild_vars ==
    <<shard_vars, dispatch_vars, members_vars, profile_vars, construct_vars,
      start_vars, users_vars, iter_vars, emoji_vars, overlap_vars, url_vars>>

\* Everything but iter_vars.
non_iter_vars ==
    <<shard_vars, dispatch_vars, members_vars, profile_vars, construct_vars,
      start_vars, users_vars, guild_vars, emoji_vars, overlap_vars, url_vars>>

\* Everything but emoji_vars.
non_emoji_vars ==
    <<shard_vars, dispatch_vars, members_vars, profile_vars, construct_vars,
      start_vars, users_vars, guild_vars, iter_vars, overlap_vars, url_vars>>

\* Everything but overlap_vars.
non_overlap_vars ==
    <<shard_vars, dispatch_vars, members_vars, profile_vars, construct_vars,
      start_vars, users_vars, guild_vars, iter_vars, emoji_vars, url_vars>>

\* Everything but url_vars.
non_url_vars ==
    <<shard_vars, dispatch_vars, members_vars, profile_vars, construct_vars,
      start_vars, users_vars, guild_vars, iter_vars, emoji_vars,
      overlap_vars>>

-----------------------------------------------------------------------------
(* Bounds *)

\* Gateway.from_token succeeds at most this many times in a run.
MaxGateways == 3

-----------------------------------------------------------------------------
(* Event names *)

EV_connect ==
    <<"c","o","n","n","e","c","t">>
EV_guild_streamed ==
    <<"g","u","i","l","d","_","s","t","r","e","a","m","e","d">>
EV_guild_chunk ==
    <<"g","u","i","l","d","_","c","h","u","n","k">>
EV_guild_available ==
    <<"g","u","i","l","d","_","a","v","a","i","l","a","b","l","e">>
EV_guild_sync ==
    <<"g","u","i","l","d","_","s","y","n","c">>
EV_guild_create ==
    <<"g","u","i","l","d","_","c","r","e","a","t","e">>
EV_gateway_dispatch_received ==
    <<"g","a","t","e","w","a","y","_","d","i","s","p","a","t","c","h","_","r","e","c","e","i","v","e","d">>
EV_gateway_hello ==
    <<"g","a","t","e","w","a","y","_","h","e","l","l","o">>
EV_gateway ==
    <<"g","a","t","e","w","a","y">>
EV_ready ==
    <<"r","e","a","d","y">>

\* The names a gateway's events() stream is made to yield in this model.
GatewayEvents ==
    {EV_connect, EV_guild_streamed, EV_guild_chunk, EV_guild_available,
     EV_guild_sync, EV_guild_create, EV_gateway_dispatch_received,
     EV_gateway_hello, EV_gateway, EV_ready}

\* str.startswith
StartsWith(s, prefix) ==
    /\ Len(s) >= Len(prefix)
    /\ SubSeq(s, 1, Len(prefix)) = prefix

\* Client.IGNORE_READY
IGNORE_READY ==
    {EV_connect, EV_guild_streamed, EV_guild_chunk, EV_guild_available,
     EV_guild_sync}

\* A plausible slip: the prefix is tested without its underscore.
PassesGateNoUnderscore(event_name, is_ready) ==
    \/ is_ready
    \/ event_name \in IGNORE_READY
    \/ StartsWith(event_name, <<"g","a","t","e","w","a","y">>)

\* fire_event: TRUE when the call goes on to EventManager.fire_event.
PassesGate(event_name, is_ready) ==
    ~ ( /\ ~ is_ready
        /\ event_name \notin IGNORE_READY
        /\ ~ StartsWith(event_name, <<"g","a","t","e","w","a","y","_">>) )

-----------------------------------------------------------------------------
(* Closed-connection handling of handle_shard *)

\* The close codes the model's transport closes with.
CloseCodes == {1000, 1006, 4000, 4004, 4007, 4011}

CLIENT_CLOSED == "Client closed connection"

\* The close reasons the model's transport closes with.
CloseReasons == {CLIENT_CLOSED, "client closed connection", "Authentication failed."}

\* A plausible slip: 4007 (invalid sequence) is resumed instead of re-identified.
CloseDecisionResume4007(code, reason, has_session) ==
    IF reason = CLIENT_CLOSED THEN "return"
    ELSE IF code = 1000 \/ ~ has_session THEN "fresh"
    ELSE IF code \notin {4004, 4011} THEN "resume"
    ELSE "raise"

\* A plausible slip: every close with a session that is not fatal starts a fresh session.
CloseDecisionNeverResume(code, reason, has_session) ==
    IF reason = CLIENT_CLOSED THEN "return"
    ELSE IF code \notin {4004, 4011} \/ ~ has_session THEN "fresh"
    ELSE "raise"

\* A plausible slip: the close code is looked at before the close reason.
CloseDecisionCodeFirst(code, reason, has_session) ==
    IF code \in {1000, 4007} \/ ~ has_session THEN "fresh"
    ELSE IF reason = CLIENT_CLOSED THEN "return"
    ELSE IF code \notin {4004, 4011} THEN "resume"
    ELSE "raise"

\* The branch the except WebsocketClosed handler takes.
CloseDecision(code, reason, has_session) ==
    IF reason = CLIENT_CLOSED THEN "return"
    ELSE IF code \in {1000, 4007} \/ ~ has_session THEN "fresh"
    ELSE IF code \notin {4004, 4011} THEN "resume"
    ELSE "raise"

\* The outer except clause: the exception types it catches.
CaughtByRetry(exc) == exc \in {"WebsocketClosed", "WebsocketUnusable"}

\* A plausible slip: the reconnect request is handled like a close (fresh
\* session when no session id is held).
OnReconnectWebsocketLikeClose(has_session) ==
    IF has_session THEN <<"reconnect(resume=True)">>
    ELSE <<"_reset", "reconnect(resume=False)">>

\* The calls of the except ReconnectWebsocket handler.
OnReconnectWebsocket(has_session) == <<"reconnect(resume=True)">>

\* The calls of the fresh-session branch, in program order.
FreshSessionCalls == <<"_reset", "reconnect(resume=False)">>

\* The calls of the resume branch.
ResumeCalls == <<"reconnect(resume=True)">>

\* State._reset(shard_id): the shard is no longer ready.
StateReset(is_ready) == FALSE

\* The retry budget of handle_shard.
MaxTries == 10

\* A plausible slip: the failure count survives a successful connection.
TriesKeptOnSuccess(tries) == tries

\* total_tries after Gateway.from_token succeeded.
TriesOnSuccess(tries) == 0

NoEvent == [name |-> <<>>, ready |-> FALSE, forwarded |-> FALSE]

NoEnd == [kind |-> "none", code |-> 0, reason |-> "", session |-> FALSE]

EndOf(kind, code, reason, has_session) ==
    [kind |-> kind, code |-> code, reason |-> reason, session |-> has_session]

-----------------------------------------------------------------------------
(* handle_shard *)

\* The largest number of dispatches the gateways handle in this model.
MaxHandled == 2

\* The dispatch types counted in this model.
HandledTypes == {"READY", "MESSAGE_CREATE"}

\* The _dispatches_handled counter of a new gateway.
NoneHandled == [t \in HandledTypes |-> 0]

RECURSIVE CounterSum(_, _)
\* The number of dispatches a counter holds, over the types in S.
CounterSum(c, S) ==
    IF S = {} THEN 0
    ELSE LET t == CHOOSE x \in S : TRUE IN c[t] + CounterSum(c, S \ {t})

\* events_handled: the counters of the gateways in self._gateways, added up.
\* One shard is modelled, so self._gateways holds at most one gateway.
EventsHandled ==
    IF gateways = 0 THEN NoneHandled
    ELSE [t \in HandledTypes |-> NoneHandled[t] + dispatches_handled[t]]

\* A plausible reading: after a reconnect the same gateway is consumed again.
AfterReconnectSameGateway == "consume"

\* await gw.reconnect(...) returns: nothing follows it in the loop body, so
\* the while loop iterates and Gateway.from_token builds a new gateway.
AfterReconnect == "connect"

ShardInit ==
    /\ pc = "connect"
    /\ total_tries = 0
    /\ failed_connects = 0
    /\ gw_count = 0
    /\ gw = 0
    /\ gateways = 0
    /\ session_id = FALSE
    /\ ready = FALSE
    /\ last_event = NoEvent
    /\ last_end = NoEnd
    /\ calls = <<>>
    /\ error = ""
    /\ dispatches_handled = NoneHandled
    /\ handled_total = NoneHandled
    /\ ended_gws = {}

\* if total_tries == 10: raise RuntimeError
GiveUp ==
    /\ UNCHANGED non_shard_vars
    /\ UNCHANGED ended_gws
    /\ UNCHANGED <<dispatches_handled, handled_total>>
    /\ pc = "connect"
    /\ total_tries = MaxTries
    /\ pc' = "raised"
    /\ error' = "RuntimeError"
    /\ UNCHANGED <<total_tries, failed_connects, gw_count, gw, gateways,
                   session_id, ready, last_event, last_end, calls>>

\* Gateway.from_token (or get_gateway_url) raises: total_tries += 1; continue
ConnectFails ==
    /\ UNCHANGED non_shard_vars
    /\ UNCHANGED ended_gws
    /\ UNCHANGED <<dispatches_handled, handled_total>>
    /\ pc = "connect"
    /\ total_tries # MaxTries
    /\ total_tries' = total_tries + 1
    /\ failed_connects' = failed_connects + 1
    /\ UNCHANGED <<pc, gw_count, gw, gateways, session_id, ready, last_event,
                   last_end, calls, error>>

\* Gateway.from_token returns a new gateway: it is registered and consumed.
ConnectSucceeds ==
    /\ UNCHANGED non_shard_vars
    /\ UNCHANGED ended_gws
    /\ pc = "connect"
    /\ total_tries # MaxTries
    /\ gw_count < MaxGateways
    /\ total_tries' = TriesOnSuccess(total_tries)
    /\ failed_connects' = 0
    /\ gw_count' = gw_count + 1
    /\ gw' = gw_count + 1
    /\ gateways' = gw_count + 1
    /\ dispatches_handled' = NoneHandled
    /\ UNCHANGED handled_total
    /\ session_id' = FALSE
    /\ last_event' = NoEvent
    /\ pc' = "consume"
    /\ UNCHANGED <<ready, last_end, calls, error>>

\* The gateway takes a session id (its identify was answered).
SessionEstablished ==
    /\ UNCHANGED non_shard_vars
    /\ UNCHANGED ended_gws
    /\ UNCHANGED <<dispatches_handled, handled_total>>
    /\ pc = "consume"
    /\ ~ session_id
    /\ session_id' = TRUE
    /\ UNCHANGED <<pc, total_tries, failed_connects, gw_count, gw, gateways,
                   ready, last_event, last_end, calls, error>>

\* The state layer marks the shard ready.
ShardReady ==
    /\ UNCHANGED non_shard_vars
    /\ UNCHANGED ended_gws
    /\ UNCHANGED <<dispatches_handled, handled_total>>
    /\ pc = "consume"
    /\ ~ ready
    /\ ready' = TRUE
    /\ UNCHANGED <<pc, total_tries, failed_connects, gw_count, gw, gateways,
                   session_id, last_event, last_end, calls, error>>

\* async for event in agen: await self.fire_event(event[0], ..., gateway=gw)
ConsumeEvent ==
    /\ UNCHANGED non_shard_vars
    /\ UNCHANGED ended_gws
    /\ UNCHANGED <<dispatches_handled, handled_total>>
    /\ pc = "consume"
    /\ \E event_name \in GatewayEvents :
           last_event' = [name |-> event_name, ready |-> ready,
                          forwarded |-> PassesGate(event_name, ready)]
    /\ UNCHANGED <<pc, total_tries, failed_connects, gw_count, gw, gateways,
                   session_id, ready, last_end, calls, error>>

\* except WebsocketClosed as e, the four branches; a re-raised close is an
\* exception of the outer try.
StreamClosed ==
    /\ UNCHANGED non_shard_vars
    /\ ended_gws' = ended_gws \cup {gw}
    /\ UNCHANGED <<dispatches_handled, handled_total>>
    /\ pc = "consume"
    /\ \E code \in CloseCodes, reason \in CloseReasons :
        LET decision == CloseDecision(code, reason, session_id) IN
        /\ last_end' = EndOf("closed", code, reason, session_id)
        /\ last_event' = NoEvent
        /\ CASE decision = "return" ->
                  /\ pc' = "returned"
                  /\ calls' = <<>>
                  /\ UNCHANGED <<total_tries, ready, error>>
             [] decision = "fresh" ->
                  /\ pc' = "reconnect"
                  /\ calls' = FreshSessionCalls
                  /\ ready' = StateReset(ready)
                  /\ UNCHANGED <<total_tries, error>>
             [] decision = "resume" ->
                  /\ pc' = "reconnect"
                  /\ calls' = ResumeCalls
                  /\ UNCHANGED <<total_tries, ready, error>>
             [] decision = "raise" ->
                  /\ calls' = <<>>
                  /\ IF CaughtByRetry("WebsocketClosed")
                       THEN /\ pc' = "connect"
                            /\ total_tries' = total_tries + 1
                            /\ UNCHANGED error
                       ELSE /\ pc' = "raised"
                            /\ error' = "WebsocketClosed"
                            /\ UNCHANGED total_tries
                  /\ UNCHANGED ready
    /\ UNCHANGED <<failed_connects, gw_count, gw, gateways, session_id>>

\* except ReconnectWebsocket: await gw.reconnect(resume=True)
StreamReconnectRequest ==
    /\ UNCHANGED non_shard_vars
    /\ ended_gws' = ended_gws \cup {gw}
    /\ UNCHANGED <<dispatches_handled, handled_total>>
    /\ pc = "consume"
    /\ last_end' = EndOf("reconnect_request", 0, "", session_id)
    /\ last_event' = NoEvent
    /\ calls' = OnReconnectWebsocket(session_id)
    /\ ready' = IF "_reset" \in {calls'[i] : i \in 1..Len(calls')}
                  THEN StateReset(ready) ELSE ready
    /\ pc' = "reconnect"
    /\ UNCHANGED <<total_tries, failed_connects, gw_count, gw, gateways,
                   session_id, error>>

\* The stream (or an event firing) raises WebsocketUnusable: caught by the
\* outer except, total_tries += 1; continue
StreamUnusable ==
    /\ UNCHANGED non_shard_vars
    /\ ended_gws' = ended_gws \cup {gw}
    /\ UNCHANGED <<dispatches_handled, handled_total>>
    /\ pc = "consume"
    /\ CaughtByRetry("WebsocketUnusable")
    /\ last_end' = EndOf("unusable", 0, "", session_id)
    /\ last_event' = NoEvent
    /\ calls' = <<>>
    /\ total_tries' = total_tries + 1
    /\ pc' = "connect"
    /\ UNCHANGED <<failed_connects, gw_count, gw, gateways, session_id, ready,
                   error>>

\* The stream (or an event firing) raises any other exception: no except
\* clause of handle_shard matches it.
StreamError ==
    /\ UNCHANGED non_shard_vars
    /\ ended_gws' = ended_gws \cup {gw}
    /\ UNCHANGED <<dispatches_handled, handled_total>>
    /\ pc = "consume"
    /\ ~ CaughtByRetry("Exception")
    /\ last_end' = EndOf("error", 0, "", session_id)
    /\ last_event' = NoEvent
    /\ calls' = <<>>
    /\ pc' = "raised"
    /\ error' = "Exception"
    /\ UNCHANGED <<total_tries, failed_connects, gw_count, gw, gateways,
                   session_id, ready>>

\* The stream ends without an exception: the loop body ends and the while
\* loop iterates.
StreamExhausted ==
    /\ UNCHANGED non_shard_vars
    /\ ended_gws' = ended_gws \cup {gw}
    /\ UNCHANGED <<dispatches_handled, handled_total>>
    /\ pc = "consume"
    /\ last_end' = EndOf("exhausted", 0, "", session_id)
    /\ last_event' = NoEvent
    /\ calls' = <<>>
    /\ pc' = "connect"
    /\ UNCHANGED <<total_tries, failed_connects, gw_count, gw, gateways,
                   session_id, ready, error>>

\* gw.reconnect returns: the loop body ends and the while loop iterates.
ReconnectReturns ==
    /\ UNCHANGED non_shard_vars
    /\ UNCHANGED ended_gws
    /\ UNCHANGED <<dispatches_handled, handled_total>>
    /\ pc = "reconnect"
    /\ pc' = AfterReconnect
    /\ UNCHANGED <<total_tries, failed_connects, gw_count, gw, gateways,
                   session_id, ready, last_event, last_end, calls, error>>

\* gw.reconnect raises WebsocketClosed or WebsocketUnusable.
ReconnectFails ==
    /\ UNCHANGED non_shard_vars
    /\ UNCHANGED ended_gws
    /\ UNCHANGED <<dispatches_handled, handled_total>>
    /\ pc = "reconnect"
    /\ \E exc \in {"WebsocketClosed", "WebsocketUnusable"} : CaughtByRetry(exc)
    /\ total_tries' = total_tries + 1
    /\ pc' = "connect"
    /\ UNCHANGED <<failed_connects, gw_count, gw, gateways, session_id, ready,
                   last_event, last_end, calls, error>>

\* gw.reconnect raises any other exception.
ReconnectError ==
    /\ UNCHANGED non_shard_vars
    /\ UNCHANGED ended_gws
    /\ UNCHANGED <<dispatches_handled, handled_total>>
    /\ pc = "reconnect"
    /\ ~ CaughtByRetry("Exception")
    /\ pc' = "raised"
    /\ error' = "Exception"
    /\ UNCHANGED <<total_tries, failed_connects, gw_count, gw, gateways,
                   session_id, ready, last_event, last_end, calls>>

\* The gateway registered for the shard handles a dispatch and counts it.
GatewayHandlesDispatch ==
    /\ UNCHANGED non_shard_vars
    /\ UNCHANGED ended_gws
    /\ pc = "consume"
    /\ CounterSum(handled_total, HandledTypes) < MaxHandled
    /\ \E t \in HandledTypes :
        /\ dispatches_handled' = [dispatches_handled EXCEPT ![t] = @ + 1]
        /\ handled_total' = [handled_total EXCEPT ![t] = @ + 1]
    /\ UNCHANGED <<pc, total_tries, failed_connects, gw_count, gw, gateways,
                   session_id, ready, last_event, last_end, calls, error>>

ShardNext ==
    \/ GatewayHandlesDispatch
    \/ GiveUp
    \/ ConnectFails
    \/ ConnectSucceeds
    \/ SessionEstablished
    \/ ShardReady
    \/ ConsumeEvent
    \/ StreamClosed
    \/ StreamReconnectRequest
    \/ StreamUnusable
    \/ StreamError
    \/ StreamExhausted
    \/ ReconnectReturns
    \/ ReconnectFails
    \/ ReconnectError

-----------------------------------------------------------------------------
(* handle_dispatches *)

\* The longest async generator a routine returns in this model.
MaxItems == 2

\* str.lower, one character.
LowerChar(c) ==
    CASE c = "A" -> "a"
      [] c = "B" -> "b"
      [] c = "C" -> "c"
      [] c = "D" -> "d"
      [] c = "E" -> "e"
      [] c = "F" -> "f"
      [] c = "G" -> "g"
      [] c = "H" -> "h"
      [] c = "I" -> "i"
      [] c = "J" -> "j"
      [] c = "K" -> "k"
      [] c = "L" -> "l"
      [] c = "M" -> "m"
      [] c = "N" -> "n"
      [] c = "O" -> "o"
      [] c = "P" -> "p"
      [] c = "Q" -> "q"
      [] c = "R" -> "r"
      [] c = "S" -> "s"
      [] c = "T" -> "t"
      [] c = "U" -> "u"
      [] c = "V" -> "v"
      [] c = "W" -> "w"
      [] c = "X" -> "x"
      [] c = "Y" -> "y"
      [] c = "Z" -> "z"
      [] OTHER -> c

\* str.lower
Lower(s) == [i \in 1..Len(s) |-> LowerChar(s[i])]

\* f"handle_{handle_name}" with handle_name = name.lower()
HandleName(name) == <<"h","a","n","d","l","e","_">> \o Lower(name)

\* The handle_* attributes the state object has in this model.
StateRoutines ==
    {<<"h","a","n","d","l","e","_","r","e","a","d","y">>,
     <<"h","a","n","d","l","e","_","g","u","i","l","d","_","c","r","e","a","t","e">>}

DN_READY == <<"R","E","A","D","Y">>
DN_Ready == <<"R","e","a","d","y">>
DN_GUILD_CREATE == <<"G","U","I","L","D","_","C","R","E","A","T","E">>
DN_READ == <<"R","E","A","D">>
DN_PING == <<"P","I","N","G">>

\* The dispatch names handed to handle_dispatches in this model.
DispatchNames == {DN_READY, DN_Ready, DN_GUILD_CREATE, DN_READ, DN_PING}

\* A plausible slip: the failed attribute lookup is not caught.
LookupUncaught(name) ==
    IF HandleName(name) \in StateRoutines THEN "found" ELSE "AttributeError"

\* getattr(self.state, f"handle_{handle_name}") under except AttributeError
Lookup(name) ==
    IF HandleName(name) \in StateRoutines THEN "found" ELSE "unknown"

(* Python values a routine hands back: a str (chars) or a tuple (elems), the
   elements of a tuple being strs. *)
PyStr(chars) == [t |-> "str", chars |-> chars, elems |-> <<>>]
PyTuple(elems) == [t |-> "tuple", chars |-> <<>>, elems |-> elems]
PyNone == [t |-> "none", chars |-> <<>>, elems |-> <<>>]

ARG_guild == <<"g","1">>
ARG_member == <<"m","7">>

\* The single results of the routines of this model.
Values ==
    {PyStr(EV_ready),
     PyTuple(<<EV_connect>>),
     PyTuple(<<EV_guild_create, ARG_guild>>),
     PyTuple(<<EV_guild_chunk, ARG_guild, ARG_member>>)}

\* The tuples the async generators of this model yield.
Items == {<<EV_guild_available, ARG_guild>>, <<EV_guild_chunk, ARG_guild, ARG_member>>}

ItemSeqs == UNION {[1..n -> Items] : n \in 0..MaxItems}

Routine(kind, value, items, exc) ==
    [kind |-> kind, value |-> value, items |-> items, exc |-> exc]

\* What a routine does: raise when called, return a value, return an awaitable
\* (that gives a value or raises), or return an async generator (that yields
\* its items and then ends or raises).
Routines ==
    {Routine("raise", PyNone, <<>>, e) : e \in {"ChunkGuilds", "KeyError"}}
    \cup {Routine("value", v, <<>>, "") : v \in Values}
    \cup {Routine("awaitable", v, <<>>, "") : v \in Values}
    \cup {Routine("awaitable", PyNone, <<>>, e) : e \in {"ChunkGuilds", "KeyError"}}
    \cup {Routine("asyncgen", PyNone, s, e) :
              s \in ItemSeqs, e \in {"", "ChunkGuilds", "KeyError"}}

\* A plausible slip: the extra arguments of a tuple result are not passed on.
EventOfDropArgs(result) ==
    IF result.t # "tuple"
      THEN [name |-> result.chars, args |-> <<>>]
      ELSE [name |-> Head(result.elems), args |-> <<>>]

\* The fire_event call for a single result: result, or result[0], *result[1:]
EventOf(result) ==
    IF result.t # "tuple"
      THEN [name |-> result.chars, args |-> <<>>]
      ELSE [name |-> Head(result.elems), args |-> Tail(result.elems)]

\* The fire_event call for a yielded item: i[0], *i[1:]
EventOfItem(i) == [name |-> Head(i), args |-> Tail(i)]

\* The names bound at module level in client.py.
ModuleNames ==
    {"collections", "enum", "functools", "inspect", "logging", "typing",
     "MappingProxyType", "multio", "WebsocketClosed", "WebsocketUnusable",
     "EventContext", "EventManager", "ev_dec", "ChunkGuilds", "Gateway",
     "ReconnectWebsocket", "HTTPClient", "dt_channel", "dt_guild", "dt_member",
     "AppInfo", "Invite", "Game", "Status", "BotUser", "User", "Webhook",
     "Widget", "base64ify", "logger", "BotType", "Client"}

\* The local names of handle_dispatches.
DispatchLocals ==
    {"self", "ctx", "name", "dispatch", "handle_name", "handler", "result",
     "gen", "i"}

NotClosed == [code |-> 0, reason |-> ""]

\* except Exception: the log message is formatted from the names event and
\* dispatch (an unbound name raises NameError there), then the gateway is
\* closed and the exception re-raised.
UnexpectedFailure(exc) ==
    IF {"event", "dispatch"} \subseteq ModuleNames \cup DispatchLocals
      THEN [closed |-> [code |-> 1006, reason |-> "Internal client error"],
            error |-> exc]
      ELSE [closed |-> NotClosed, error |-> "NameError"]

DispatchIdle ==
    /\ d_pc = "idle"
    /\ d_name = <<>>
    /\ d_routine = Routine("value", PyNone, <<>>, "")
    /\ d_result = PyNone
    /\ d_pos = 0
    /\ d_fired = <<>>
    /\ d_raised = ""
    /\ d_error = ""
    /\ d_closed = NotClosed
    /\ d_chunks = 0

\* handle_dispatches is entered with a dispatch name; the routine the state
\* layer has for it behaves in one of the ways of Routines.
DispatchInit ==
    /\ d_pc = "lookup"
    /\ d_name \in DispatchNames
    /\ d_routine \in Routines
    /\ d_result = PyNone
    /\ d_pos = 0
    /\ d_fired = <<>>
    /\ d_raised = ""
    /\ d_error = ""
    /\ d_closed = NotClosed
    /\ d_chunks = 0

\* A plausible slip: the chunk-request signal has no except clause of its own
\* and is handled as an unexpected failure.
RaiseChunkAsFailure(exc) ==
    /\ d_raised' = exc
    /\ d_pc' = "done"
    /\ d_closed' = [code |-> 1006, reason |-> "Internal client error"]
    /\ d_error' = exc
    /\ UNCHANGED d_chunks

\* The except clauses of handle_dispatches, for an exception raised in the try.
Raise(exc) ==
    /\ d_raised' = exc
    /\ d_pc' = "done"
    /\ IF exc = "ChunkGuilds"
         THEN /\ d_chunks' = d_chunks + 1
              /\ UNCHANGED <<d_closed, d_error>>
         ELSE /\ d_closed' = UnexpectedFailure(exc).closed
              /\ d_error' = UnexpectedFailure(exc).error
              /\ UNCHANGED d_chunks

\* The lookup fails: warning, return.
DispatchUnknown ==
    /\ UNCHANGED non_dispatch_vars
    /\ d_pc = "lookup"
    /\ Lookup(d_name) # "found"
    /\ d_pc' = "done"
    /\ d_error' = IF Lookup(d_name) = "unknown" THEN "" ELSE Lookup(d_name)
    /\ UNCHANGED <<d_name, d_routine, d_result, d_pos, d_fired, d_raised,
                   d_closed, d_chunks>>

\* result = handler(ctx.gateway, dispatch), and the test of what came back.
DispatchCall ==
    /\ UNCHANGED non_dispatch_vars
    /\ d_pc = "lookup"
    /\ Lookup(d_name) = "found"
    /\ CASE d_routine.kind = "raise" ->
              /\ Raise(d_routine.exc)
              /\ UNCHANGED <<d_result, d_pos>>
         [] d_routine.kind = "value" ->
              /\ d_result' = d_routine.value
              /\ d_pc' = "fire"
              /\ UNCHANGED <<d_pos, d_raised, d_error, d_closed, d_chunks>>
         [] d_routine.kind = "awaitable" ->
              /\ d_pc' = "await"
              /\ UNCHANGED <<d_result, d_pos, d_raised, d_error, d_closed,
                             d_chunks>>
         [] d_routine.kind = "asyncgen" ->
              /\ d_pc' = "iterate"
              /\ UNCHANGED <<d_result, d_pos, d_raised, d_error, d_closed,
                             d_chunks>>
    /\ UNCHANGED <<d_name, d_routine, d_fired>>

\* result = await result
DispatchAwait ==
    /\ UNCHANGED non_dispatch_vars
    /\ d_pc = "await"
    /\ IF d_routine.exc = ""
         THEN /\ d_result' = d_routine.value
              /\ d_pc' = "fire"
              /\ UNCHANGED <<d_raised, d_error, d_closed, d_chunks>>
         ELSE /\ Raise(d_routine.exc)
              /\ UNCHANGED d_result
    /\ UNCHANGED <<d_name, d_routine, d_pos, d_fired>>

\* The single fire_event call of a value or tuple result.
DispatchFire ==
    /\ UNCHANGED non_dispatch_vars
    /\ d_pc = "fire"
    /\ d_fired' = Append(d_fired, EventOf(d_result))
    /\ d_pc' = "done"
    /\ UNCHANGED <<d_name, d_routine, d_result, d_pos, d_raised, d_error,
                   d_closed, d_chunks>>

\* EventManager.fire_event raises.
DispatchFireRaises ==
    /\ UNCHANGED non_dispatch_vars
    /\ d_pc \in {"fire", "iterate"}
    /\ d_pc = "iterate" => d_pos < Len(d_routine.items)
    /\ Raise("RuntimeError")
    /\ UNCHANGED <<d_name, d_routine, d_result, d_pos, d_fired>>

\* async for i in gen: one item is yielded and fired.
DispatchIterate ==
    /\ UNCHANGED non_dispatch_vars
    /\ d_pc = "iterate"
    /\ d_pos < Len(d_routine.items)
    /\ d_pos' = d_pos + 1
    /\ d_fired' = Append(d_fired, EventOfItem(d_routine.items[d_pos + 1]))
    /\ UNCHANGED <<d_pc, d_name, d_routine, d_result, d_raised, d_error,
                   d_closed, d_chunks>>

\* The generator ends (return, no more processing) or raises.
DispatchGenEnds ==
    /\ UNCHANGED non_dispatch_vars
    /\ d_pc = "iterate"
    /\ d_pos = Len(d_routine.items)
    /\ IF d_routine.exc = ""
         THEN /\ d_pc' = "done"
              /\ UNCHANGED <<d_raised, d_error, d_closed, d_chunks>>
         ELSE Raise(d_routine.exc)
    /\ UNCHANGED <<d_name, d_routine, d_result, d_pos, d_fired>>

DispatchNext ==
    \/ DispatchUnknown
    \/ DispatchCall
    \/ DispatchAwait
    \/ DispatchFire
    \/ DispatchFireRaises
    \/ DispatchIterate
    \/ DispatchGenEnds

-----------------------------------------------------------------------------
(* download_guild_members *)

\* The longest script of pages a member source answers with in this model.
MaxPages == 3

\* The largest page of the enumerated scripts.
MaxPageSize == 2

\* The largest limit argument of the enumerated calls.
MaxLimit == 2

\* The default of the limit parameter.
DefaultLimit == 1000

RECURSIVE SumTo(_, _)
\* sizes[1] + ... + sizes[k]
SumTo(sizes, k) == IF k = 0 THEN 0 ELSE SumTo(sizes, k - 1) + sizes[k]

\* The k-th page of a source that answers with pages of the given sizes and
\* with empty pages after them.  A member datum is written as its
\* ["user"]["id"]; the ids count up from 1 over the pages.
PageOf(sizes, k) ==
    IF k > Len(sizes) THEN <<>>
    ELSE [i \in 1..sizes[k] |-> SumTo(sizes, k - 1) + i]

\* The scripts of page sizes that are enumerated.
SmallScripts == UNION {[1..n -> 0..MaxPageSize] : n \in 0..MaxPages}

\* The calls of this model: (page sizes, limit).
MemberCalls ==
    {<<s, l>> : s \in SmallScripts, l \in 1..MaxLimit}
    \cup {<<s, DefaultLimit>> : s \in {<<1000, 1000, 400>>, <<1000, 1000>>}}

\* The largest member id of the guilds of the cursor-driven source.
MaxMemberId == 3

RECURSIVE CursorPage(_, _, _)
\* What a source holding the members of a guild answers: the limit members
\* of smallest id above the cursor, or all that remain, in order of id.
CursorPage(guild, cursor, limit) ==
    LET rest == {x \in guild : x > cursor} IN
    IF limit = 0 \/ rest = {} THEN <<>>
    ELSE LET least == CHOOSE x \in rest : \A y \in rest : x <= y
         IN <<least>> \o CursorPage(guild, least, limit - 1)

\* The answer to request number k: the k-th page of the script, or the page
\* above the cursor (after=None asks from the start).
SourceAnswer(source, sizes, k, guild, cursor, limit) ==
    IF source = "script" THEN PageOf(sizes, k)
    ELSE CursorPage(guild, IF cursor = -1 THEN 0 ELSE cursor, limit)

\* A plausible slip: the cursor is taken from the first member downloaded.
LastIdOfFirst(member_data) == member_data[1]

\* last_id = member_data[-1]["user"]["id"]
LastIdOf(member_data) == member_data[Len(member_data)]

\* A plausible slip: only an empty page ends the download.
DownloadFinishedOnEmptyOnly(next_data, limit) == FALSE

\* if len(next_data) < limit: break
DownloadFinished(next_data, limit) == Len(next_data) < limit

MembersIdle ==
    /\ m_pc = "idle"
    /\ m_sizes = <<>>
    /\ m_limit = 0
    /\ m_get_all = FALSE
    /\ m_after = 0
    /\ m_last_id = 0
    /\ m_member_data = <<>>
    /\ m_requests = <<>>
    /\ m_members = <<>>
    /\ m_source = "script"
    /\ m_guild = {}

\* download_guild_members is called; after is None (written -1) or an id.
MembersInit ==
    /\ m_pc = "request"
    /\ \E c \in MemberCalls : m_sizes = c[1] /\ m_limit = c[2]
    /\ m_get_all \in BOOLEAN
    /\ m_after \in {-1, 1}
    /\ m_last_id = 0
    /\ m_member_data = <<>>
    /\ m_requests = <<>>
    /\ m_members = <<>>
    /\ m_source = "script"
    /\ m_guild = {}

\* download_guild_members is called on a guild whose members the source
\* holds and hands out by cursor.
CursorInit ==
    /\ m_pc = "request"
    /\ m_sizes = <<>>
    /\ m_limit \in 1..MaxLimit
    /\ m_get_all \in BOOLEAN
    /\ m_after \in {-1, 1}
    /\ m_last_id = 0
    /\ m_member_data = <<>>
    /\ m_requests = <<>>
    /\ m_members = <<>>
    /\ m_source = "cursor"
    /\ m_guild \in SUBSET (1..MaxMemberId)

\* get_all is True: one turn of the while loop, up to the next request or,
\* after a break, to the return of the members built from member_data.
MembersRequestNext ==
    /\ UNCHANGED non_members_vars
    /\ m_pc = "request"
    /\ m_get_all
    /\ LET next_data == SourceAnswer(m_source, m_sizes, Len(m_requests) + 1,
                                     m_guild, m_last_id, m_limit)
           data == m_member_data \o next_data
       IN /\ m_requests' = Append(m_requests, [after |-> m_last_id, limit |-> m_limit])
          /\ IF next_data = <<>>
               THEN /\ m_pc' = "done"
                    /\ m_members' = m_member_data
                    /\ UNCHANGED <<m_member_data, m_last_id>>
               ELSE /\ m_member_data' = data
                    /\ IF DownloadFinished(next_data, m_limit)
                         THEN /\ m_pc' = "done"
                              /\ m_members' = data
                              /\ UNCHANGED m_last_id
                         ELSE /\ m_last_id' = LastIdOf(data)
                              /\ UNCHANGED <<m_pc, m_members>>
    /\ UNCHANGED <<m_sizes, m_limit, m_get_all, m_after, m_source, m_guild>>

\* get_all is not True: the single request with the caller's after.
MembersRequestPage ==
    /\ UNCHANGED non_members_vars
    /\ m_pc = "request"
    /\ ~ m_get_all
    /\ LET next_data == SourceAnswer(m_source, m_sizes, 1, m_guild, m_after, m_limit)
       IN /\ m_requests' = Append(m_requests, [after |-> m_after, limit |-> m_limit])
          /\ m_member_data' = next_data
          /\ m_members' = next_data
    /\ m_pc' = "done"
    /\ UNCHANGED <<m_sizes, m_limit, m_get_all, m_after, m_last_id, m_source,
                   m_guild>>

MembersNext ==
    \/ MembersRequestNext
    \/ MembersRequestPage

-----------------------------------------------------------------------------
(* edit_profile *)

\* The character ` (written out, as it cannot stand in a TLA+ string).
Backtick == "BACKTICK"

UN_empty == <<>>
UN_a == <<"a">>
UN_ab == <<"a","b">>
UN_discordtag == <<"d","i","s","c","o","r","d","t","a","g">>
UN_everyone == <<"e","v","e","r","y","o","n","e">>
UN_here == <<"h","e","r","e">>
UN_Everyone == <<"E","v","e","r","y","o","n","e">>
UN_at == <<"b","o","b","@","h","o","m","e">>
UN_colon == <<"a",":","b">>
UN_fence == <<"a",Backtick,Backtick,Backtick,"b">>
UN_ticks == <<"a",Backtick,Backtick,"b">>
UN_ten == <<"c","u","r","i","o","u","s","1","2","3">>
UN_at_only == <<"@">>
UN_32 == [i \in 1..32 |-> "x"]
UN_33 == [i \in 1..33 |-> "x"]
UN_here_33 == UN_here \o [i \in 1..29 |-> "x"]

\* The username arguments of this model.
Usernames ==
    {UN_empty, UN_a, UN_ab, UN_discordtag, UN_everyone, UN_here,
     UN_Everyone,
     UN_at, UN_colon, UN_fence, UN_ticks, UN_ten, UN_at_only,
     UN_32, UN_33, UN_here_33}

\* sub in s, for strs
Contains(s, sub) ==
    \E i \in 1..(Len(s) - Len(sub) + 1) : SubSeq(s, i, i + Len(sub) - 1) = sub

\* The three tests made on a username, in program order: the message of the
\* ValueError raised, "" when none is.
UsernameError(username) ==
    IF \E x \in {<<"@">>, <<":">>, <<Backtick,Backtick,Backtick>>} : Contains(username, x)
      THEN "Username must not contain banned characters"
    ELSE IF username \in {UN_discordtag, UN_everyone, UN_here}
      THEN "Username cannot be a banned username"
    ELSE IF ~ (2 <= Len(username) /\ Len(username) <= 32)
      THEN "Username must be 2-32 characters"
    ELSE ""

\* bool(username): None and the empty str are false.
Truthy(username) == username.given /\ username.chars # <<>>

NoUsername == [given |-> FALSE, chars |-> <<>>]

ProfileIdle ==
    /\ p_pc = "idle"
    /\ p_username = NoUsername
    /\ p_is_bot = FALSE
    /\ p_password = FALSE
    /\ p_avatar = FALSE
    /\ p_error = ""
    /\ p_edits = <<>>

\* edit_profile is called: username is None or a str, password and avatar are
\* None or given, and the account is a bot or not.
ProfileInit ==
    /\ p_pc = "call"
    /\ p_username \in {NoUsername} \cup {[given |-> TRUE, chars |-> u] : u \in Usernames}
    /\ p_is_bot \in BOOLEAN
    /\ p_password \in BOOLEAN
    /\ p_avatar \in BOOLEAN
    /\ p_error = ""
    /\ p_edits = <<>>

\* edit_profile raises ValueError before its request.
EditProfileRejects ==
    /\ UNCHANGED non_profile_vars
    /\ p_pc = "call"
    /\ \/ /\ ~ p_is_bot /\ ~ p_password
          /\ p_error' = "Password must be passed for user bots"
       \/ /\ p_is_bot \/ p_password
          /\ Truthy(p_username)
          /\ UsernameError(p_username.chars) # ""
          /\ p_error' = UsernameError(p_username.chars)
    /\ p_pc' = "done"
    /\ UNCHANGED <<p_username, p_is_bot, p_password, p_avatar, p_edits>>

\* edit_profile reaches await self.http.edit_user(username, avatar, password).
EditProfileSends ==
    /\ UNCHANGED non_profile_vars
    /\ p_pc = "call"
    /\ p_is_bot \/ p_password
    /\ Truthy(p_username) => UsernameError(p_username.chars) = ""
    /\ p_edits' = Append(p_edits, [username |-> p_username, avatar |-> p_avatar,
                                   password |-> p_password])
    /\ p_pc' = "done"
    /\ UNCHANGED <<p_username, p_is_bot, p_password, p_avatar, p_error>>

ProfileNext ==
    \/ EditProfileRejects
    \/ EditProfileSends

-----------------------------------------------------------------------------
(* Client.__init__ *)

\* BotType.BOT
BOT == 1

\* BotType.USERBOT
USERBOT == 2

\* The bot_type arguments of this model: every union of the BotType flags
\* (and of the reserved bit 4).
BotTypes == 0..127

\* bool(bot_type & flag), for a flag that is a power of two
HasFlag(bot_type, flag) == (bot_type \div flag) % 2 = 1

\* A plausible slip: the two flags are joined by or.
RejectedBotTypeEither(bot_type) ==
    HasFlag(bot_type, BOT) \/ HasFlag(bot_type, USERBOT)

\* if self.bot_type & BotType.BOT and self.bot_type & BotType.USERBOT
RejectedBotType(bot_type) ==
    HasFlag(bot_type, BOT) /\ HasFlag(bot_type, USERBOT)

NoHttp == [built |-> FALSE, bot |-> FALSE]

ConstructIdle ==
    /\ c_pc = "idle"
    /\ c_bot_type = 0
    /\ c_error = ""
    /\ c_http = NoHttp
    /\ c_handlers = {}

\* Client(token, bot_type=...) is called.
ConstructInit ==
    /\ c_pc = "call"
    /\ c_bot_type \in BotTypes
    /\ c_error = ""
    /\ c_http = NoHttp
    /\ c_handlers = {}

\* __init__ raises ValueError: no event registry and no HTTPClient is built.
ConstructRejects ==
    /\ UNCHANGED non_construct_vars
    /\ c_pc = "call"
    /\ RejectedBotType(c_bot_type)
    /\ c_error' = "ValueError"
    /\ c_pc' = "done"
    /\ UNCHANGED <<c_bot_type, c_http, c_handlers>>

\* __init__ completes: the registry gets handle_dispatches, the HTTPClient is
\* built with bot=bool(self.bot_type & BotType.BOT).
ConstructCompletes ==
    /\ UNCHANGED non_construct_vars
    /\ c_pc = "call"
    /\ ~ RejectedBotType(c_bot_type)
    /\ c_handlers' = {EV_gateway_dispatch_received}
    /\ c_http' = [built |-> TRUE, bot |-> HasFlag(c_bot_type, BOT)]
    /\ c_pc' = "done"
    /\ UNCHANGED <<c_bot_type, c_error>>

ConstructNext ==
    \/ ConstructRejects
    \/ ConstructCompletes

-----------------------------------------------------------------------------
(* Client.start *)

\* The largest shard_count argument of this model.
MaxShards == 3

\* A plausible slip: the shard ids are counted from 1.
RangeFromOne(start, stop) == [i \in 1..(stop - start) |-> start + i]

\* range(start, stop), as the sequence it iterates over
Range(start, stop) == [i \in 1..(stop - start) |-> start + i - 1]

StartIdle ==
    /\ s_pc = "idle"
    /\ s_bot_type = 0
    /\ s_shard_count = 0
    /\ s_app_info_requests = 0
    /\ s_application_info = FALSE
    /\ s_task_manager = FALSE
    /\ s_spawned = <<>>
    /\ s_error = ""

\* start(shard_count) is called on a client whose construction succeeded.
StartInit ==
    /\ s_pc = "call"
    /\ s_bot_type \in {b \in BotTypes : ~ RejectedBotType(b)}
    /\ s_shard_count \in 0..MaxShards
    /\ s_app_info_requests = 0
    /\ s_application_info = FALSE
    /\ s_task_manager = FALSE
    /\ s_spawned = <<>>
    /\ s_error = ""

\* if self.bot_type & BotType.BOT: await self.http.get_app_info(None)
StartRequestsAppInfo ==
    /\ UNCHANGED non_start_vars
    /\ s_pc = "call"
    /\ HasFlag(s_bot_type, BOT)
    /\ s_app_info_requests' = s_app_info_requests + 1
    /\ s_pc' = "get_app_info"
    /\ UNCHANGED <<s_bot_type, s_shard_count, s_application_info,
                   s_task_manager, s_spawned, s_error>>

\* The request is answered: self.application_info = AppInfo(...)
StartStoresAppInfo ==
    /\ UNCHANGED non_start_vars
    /\ s_pc = "get_app_info"
    /\ s_application_info' = TRUE
    /\ s_pc' = "task_manager"
    /\ UNCHANGED <<s_bot_type, s_shard_count, s_app_info_requests,
                   s_task_manager, s_spawned, s_error>>

\* The request fails: the exception leaves start.
StartAppInfoRaises ==
    /\ UNCHANGED non_start_vars
    /\ s_pc = "get_app_info"
    /\ s_error' = "HTTPException"
    /\ s_pc' = "raised"
    /\ UNCHANGED <<s_bot_type, s_shard_count, s_app_info_requests,
                   s_application_info, s_task_manager, s_spawned>>

\* async with task_manager() as tg: self.events.task_manager = tg
StartEntersTaskManager ==
    /\ UNCHANGED non_start_vars
    /\ \/ s_pc = "call" /\ ~ HasFlag(s_bot_type, BOT)
       \/ s_pc = "task_manager"
    /\ s_task_manager' = TRUE
    /\ s_pc' = "spawn"
    /\ UNCHANGED <<s_bot_type, s_shard_count, s_app_info_requests,
                   s_application_info, s_spawned, s_error>>

\* for shard_id in range(0, shard_count): await tg.spawn(handle_shard(...))
StartSpawns ==
    /\ UNCHANGED non_start_vars
    /\ s_pc = "spawn"
    /\ Len(s_spawned) < Len(Range(0, s_shard_count))
    /\ s_spawned' = Append(s_spawned, Range(0, s_shard_count)[Len(s_spawned) + 1])
    /\ UNCHANGED <<s_pc, s_bot_type, s_shard_count, s_app_info_requests,
                   s_application_info, s_task_manager, s_error>>

\* The loop ends: the task manager waits for the shard tasks.
StartWaits ==
    /\ UNCHANGED non_start_vars
    /\ s_pc = "spawn"
    /\ Len(s_spawned) = Len(Range(0, s_shard_count))
    /\ s_pc' = "wait"
    /\ UNCHANGED <<s_bot_type, s_shard_count, s_app_info_requests,
                   s_application_info, s_task_manager, s_spawned, s_error>>

StartNext ==
    \/ StartRequestsAppInfo
    \/ StartStoresAppInfo
    \/ StartAppInfoRaises
    \/ StartEntersTaskManager
    \/ StartSpawns
    \/ StartWaits

-----------------------------------------------------------------------------
(* Client.get_user *)

\* The user ids and guild ids of this model, and the number of get_user calls.
MaxUsers == 2
MaxGuilds == 2
MaxCalls == 3

Users == 1..MaxUsers
Guilds == 1..MaxGuilds

\* A plausible slip: the user pool is not consulted.
CacheHitNever(users, user_id) == FALSE

\* try: return self.state._users[user_id] -- no KeyError
CacheHit(users, user_id) == user_id \in users

\* The user is referenced by at least one cached member.
Referenced(members, user_id) == \E g \in Guilds : <<g, user_id>> \in members

\* state.make_user: the new user enters the user pool.
MakeUser(users, user_id) == users \cup {user_id}

\* state._check_decache_user: a user no cached member references leaves the pool.
CheckDecacheUser(users, members, user_id) ==
    IF Referenced(members, user_id) THEN users ELSE users \ {user_id}

UsersIdle ==
    /\ u_pc = "idle"
    /\ u_users = {}
    /\ u_members = {}
    /\ u_id = 0
    /\ u_in_pool = FALSE
    /\ u_requests = 0
    /\ u_calls = 0

\* Every user a cached member references is in the pool; the pool may hold
\* other users too.
UsersInit ==
    /\ u_pc = "idle"
    /\ u_members \in SUBSET (Guilds \X Users)
    /\ u_users \in SUBSET Users
    /\ \A u \in Users : Referenced(u_members, u) => u \in u_users
    /\ u_id = 0
    /\ u_in_pool = FALSE
    /\ u_requests = 0
    /\ u_calls = 0

\* get_user(user_id) finds the user in the pool and returns it.
GetUserCached ==
    /\ UNCHANGED non_users_vars
    /\ u_pc # "await"
    /\ u_calls < MaxCalls
    /\ \E user_id \in Users :
        /\ CacheHit(u_users, user_id)
        /\ u_id' = user_id
        /\ u_in_pool' = (user_id \in u_users)
    /\ u_requests' = 0
    /\ u_calls' = u_calls + 1
    /\ u_pc' = "returned"
    /\ UNCHANGED <<u_users, u_members>>

\* get_user(user_id) gets a KeyError and awaits self.http.get_user(user_id).
GetUserRequests ==
    /\ UNCHANGED non_users_vars
    /\ u_pc # "await"
    /\ u_calls < MaxCalls
    /\ \E user_id \in Users :
        /\ ~ CacheHit(u_users, user_id)
        /\ u_id' = user_id
        /\ u_in_pool' = (user_id \in u_users)
    /\ u_requests' = 1
    /\ u_calls' = u_calls + 1
    /\ u_pc' = "await"
    /\ UNCHANGED <<u_users, u_members>>

\* The request is answered: make_user, then _check_decache_user(u.id).
GetUserFetched ==
    /\ UNCHANGED non_users_vars
    /\ u_pc = "await"
    /\ u_users' = CheckDecacheUser(MakeUser(u_users, u_id), u_members, u_id)
    /\ u_pc' = "returned"
    /\ UNCHANGED <<u_members, u_id, u_in_pool, u_requests, u_calls>>

\* The request fails: the exception leaves get_user.
GetUserHttpRaises ==
    /\ UNCHANGED non_users_vars
    /\ u_pc = "await"
    /\ u_pc' = "raised"
    /\ UNCHANGED <<u_users, u_members, u_id, u_in_pool, u_requests, u_calls>>

\* The state layer caches a member: its user is in the pool from then on.
MemberCached ==
    /\ UNCHANGED non_users_vars
    /\ \E g \in Guilds, u \in Users :
        /\ <<g, u>> \notin u_members
        /\ u_members' = u_members \cup {<<g, u>>}
        /\ u_users' = MakeUser(u_users, u)
    /\ UNCHANGED <<u_pc, u_id, u_in_pool, u_requests, u_calls>>

\* The state layer drops a member and runs the decache check for its user.
MemberRemoved ==
    /\ UNCHANGED non_users_vars
    /\ \E m \in u_members :
        /\ u_members' = u_members \ {m}
        /\ u_users' = CheckDecacheUser(u_users, u_members \ {m}, m[2])
    /\ UNCHANGED <<u_pc, u_id, u_in_pool, u_requests, u_calls>>

UsersNext ==
    \/ GetUserCached
    \/ GetUserRequests
    \/ GetUserFetched
    \/ GetUserHttpRaises
    \/ MemberCached
    \/ MemberRemoved

-----------------------------------------------------------------------------
(* Client.download_guild *)

\* The guild ids of this model.
MaxGuildIds == 2

GuildIds == 1..MaxGuildIds

\* No guild: an absent entry of state._guilds, or no return value yet.
NoGuild == [kind |-> "none"]

\* The guilds the state layer may hold before the call. The member and
\* channel caches of a guild are named after where their content came from.
CachedGuilds ==
    [kind : {"guild"}, fresh : {FALSE}, unavailable : BOOLEAN,
     members : {"cache"}, channels : {"cache"}]

\* guild = Guild(self, **guild_data); guild.unavailable = False
NewGuild ==
    [kind |-> "guild", fresh |-> TRUE, unavailable |-> FALSE,
     members |-> "guild_data", channels |-> "guild_data"]

\* A plausible slip: the guild store is left alone.
StoreGuildNot(guilds, guild_id, guild) == guilds

\* self.state._guilds[guild_id] = guild
StoreGuild(guilds, guild_id, guild) == [guilds EXCEPT ![guild_id] = guild]

GuildIdle ==
    /\ g_pc = "idle"
    /\ g_guild_id = 0
    /\ g_full = FALSE
    /\ g_guilds = [i \in GuildIds |-> NoGuild]
    /\ g_before = [i \in GuildIds |-> NoGuild]
    /\ g_log = <<>>
    /\ g_result = NoGuild
    /\ g_error = ""

\* download_guild(guild_id, full=...) is called.
GuildInit ==
    /\ g_pc = "get_guild"
    /\ g_guild_id \in GuildIds
    /\ g_full \in BOOLEAN
    /\ g_guilds \in [GuildIds -> CachedGuilds \cup {NoGuild}]
    /\ g_before = g_guilds
    /\ g_log = <<"http.get_guild">>
    /\ g_result = NoGuild
    /\ g_error = ""

\* http.get_guild fails: the exception leaves download_guild.
GetGuildRaises ==
    /\ UNCHANGED non_guild_vars
    /\ g_pc = "get_guild"
    /\ g_error' = "HTTPException"
    /\ g_pc' = "raised"
    /\ UNCHANGED <<g_guild_id, g_full, g_guilds, g_before, g_log, g_result>>

\* http.get_guild answers, not full: the new guild is stored and returned.
DownloadGuildReturns ==
    /\ UNCHANGED non_guild_vars
    /\ g_pc = "get_guild"
    /\ ~ g_full
    /\ g_guilds' = StoreGuild(g_guilds, g_guild_id, NewGuild)
    /\ g_result' = NewGuild
    /\ g_pc' = "returned"
    /\ UNCHANGED <<g_guild_id, g_full, g_before, g_log, g_error>>

\* http.get_guild answers, full: the new guild is stored and
\* download_guild_members(guild_id=guild_id, get_all=True) is awaited.
DownloadGuildStartsMembers ==
    /\ UNCHANGED non_guild_vars
    /\ g_pc = "get_guild"
    /\ g_full
    /\ g_guilds' = StoreGuild(g_guilds, g_guild_id, NewGuild)
    /\ g_log' = Append(g_log, "download_guild_members")
    /\ g_pc' = "members"
    /\ UNCHANGED <<g_guild_id, g_full, g_before, g_result, g_error>>

\* The members arrive: guild._members is replaced (guild is the stored
\* object), and download_channels(guild_id=guild_id) is awaited.
DownloadGuildStartsChannels ==
    /\ UNCHANGED non_guild_vars
    /\ g_pc = "members"
    /\ g_guilds' = [g_guilds EXCEPT ![g_guild_id].members = "download"]
    /\ g_log' = Append(g_log, "download_channels")
    /\ g_pc' = "channels"
    /\ UNCHANGED <<g_guild_id, g_full, g_before, g_result, g_error>>

\* The channels arrive: guild._channels is replaced and the guild returned.
DownloadGuildFullReturns ==
    /\ UNCHANGED non_guild_vars
    /\ g_pc = "channels"
    /\ g_guilds' = [g_guilds EXCEPT ![g_guild_id].channels = "download"]
    /\ g_result' = [g_guilds[g_guild_id] EXCEPT !.channels = "download"]
    /\ g_pc' = "returned"
    /\ UNCHANGED <<g_guild_id, g_full, g_before, g_log, g_error>>

\* A member or channel download fails: the exception leaves download_guild.
DownloadGuildExtraRaises ==
    /\ UNCHANGED non_guild_vars
    /\ g_pc \in {"members", "channels"}
    /\ g_error' = "HTTPException"
    /\ g_pc' = "raised"
    /\ UNCHANGED <<g_guild_id, g_full, g_guilds, g_before, g_log, g_result>>

GuildNext ==
    \/ GetGuildRaises
    \/ DownloadGuildReturns
    \/ DownloadGuildStartsMembers
    \/ DownloadGuildStartsChannels
    \/ DownloadGuildFullReturns
    \/ DownloadGuildExtraRaises

-----------------------------------------------------------------------------
(* AsyncIteratorWrapper *)

\* The longest fetch result and the number of element requests of this model.
MaxFetch == 3
MaxRequests == 5

\* The elements a fetch may return.
IterItems == {"a", "b"}

\* The results the wrapped coroutine may return.
FetchResults == UNION {[1..n -> IterItems] : n \in 0..MaxFetch}

\* A plausible slip: the element is taken from the right end.
PopRight(items) ==
    [item |-> items[Len(items)], rest |-> SubSeq(items, 1, Len(items) - 1)]

\* self.items.popleft(), on a deque that is not empty
PopLeft(items) == [item |-> Head(items), rest |-> Tail(items)]

\* if not self._filled: await self._fill() -- self.items afterwards
ItemsAfterFill(filled, items, result) ==
    IF ~ filled THEN items \o result ELSE items

IterIdle ==
    /\ it_coro = "none"
    /\ it_result = <<>>
    /\ it_filled = FALSE
    /\ it_items = <<>>
    /\ it_fetches = 0
    /\ it_requests = 0
    /\ it_delivered = <<>>
    /\ it_stops = 0
    /\ it_errors = 0

\* __init__: an empty deque, not filled, a coroutine that has not run.
IterInit ==
    /\ it_coro = "created"
    /\ it_result \in FetchResults
    /\ it_filled = FALSE
    /\ it_items = <<>>
    /\ it_fetches = 0
    /\ it_requests = 0
    /\ it_delivered = <<>>
    /\ it_stops = 0
    /\ it_errors = 0

\* __anext__ returns an element, after _fill if the wrapper was not filled.
AnextReturns ==
    /\ UNCHANGED non_iter_vars
    /\ it_requests < MaxRequests
    /\ it_filled \/ it_coro = "created"
    /\ LET items == ItemsAfterFill(it_filled, it_items, it_result) IN
        /\ items # <<>>
        /\ it_delivered' = Append(it_delivered, PopLeft(items).item)
        /\ it_items' = PopLeft(items).rest
    /\ it_fetches' = IF it_filled THEN it_fetches ELSE it_fetches + 1
    /\ it_coro' = IF it_filled THEN it_coro ELSE "finished"
    /\ it_filled' = TRUE
    /\ it_requests' = it_requests + 1
    /\ UNCHANGED <<it_result, it_stops, it_errors>>

\* __anext__ finds the deque empty, after _fill if the wrapper was not
\* filled: IndexError, raise StopAsyncIteration.
AnextStops ==
    /\ UNCHANGED non_iter_vars
    /\ it_requests < MaxRequests
    /\ it_filled \/ it_coro = "created"
    /\ LET items == ItemsAfterFill(it_filled, it_items, it_result) IN
        /\ items = <<>>
        /\ it_items' = items
    /\ it_stops' = it_stops + 1
    /\ it_fetches' = IF it_filled THEN it_fetches ELSE it_fetches + 1
    /\ it_coro' = IF it_filled THEN it_coro ELSE "finished"
    /\ it_filled' = TRUE
    /\ it_requests' = it_requests + 1
    /\ UNCHANGED <<it_result, it_delivered, it_errors>>

\* The wrapped coroutine raises: the exception leaves _fill before
\* self._filled is set, and __anext__.
AnextFetchRaises ==
    /\ UNCHANGED non_iter_vars
    /\ it_requests < MaxRequests
    /\ ~ it_filled
    /\ it_coro = "created"
    /\ it_fetches' = it_fetches + 1
    /\ it_coro' = "failed"
    /\ it_errors' = it_errors + 1
    /\ it_requests' = it_requests + 1
    /\ UNCHANGED <<it_result, it_filled, it_items, it_delivered, it_stops>>

\* await self.coro on a coroutine that has already run: RuntimeError, and the
\* fetch does not run again.
AnextAwaitsAgain ==
    /\ UNCHANGED non_iter_vars
    /\ it_requests < MaxRequests
    /\ ~ it_filled
    /\ it_coro \in {"finished", "failed"}
    /\ it_errors' = it_errors + 1
    /\ it_requests' = it_requests + 1
    /\ UNCHANGED <<it_coro, it_result, it_filled, it_items, it_fetches,
                   it_delivered, it_stops>>

IterNext ==
    \/ AnextReturns
    \/ AnextStops
    \/ AnextFetchRaises
    \/ AnextAwaitsAgain

-----------------------------------------------------------------------------
(* Emoji.roles *)

\* The role ids of this model and the longest role_ids list.
MaxRoleIds == 3
MaxRoleIdsLen == 2

RoleIds == 1..MaxRoleIds

\* The role_ids lists an emoji may hold.
RoleIdLists == UNION {[1..n -> RoleIds] : n \in 0..MaxRoleIdsLen}

\* The role cached in guild guild_id under role_id.
RoleOf(guild_id, role_id) == [guild |-> guild_id, id |-> role_id]

\* guild.default_role
DefaultRoleOf(guild_id) == [guild |-> guild_id, id |-> 0]

\* self._bot.guilds.get(self.guild_id): the guild is found
EmojiGuildCached(guilds, guild_id) == guild_id \in guilds

\* A plausible slip: a one-element list counts as empty.
NoRoleIdsUpToOne(role_ids) == Len(role_ids) <= 1

\* len(self.role_ids) <= 0
NoRoleIds(role_ids) == Len(role_ids) <= 0

\* The exception the property raises, "" if none.
EmojiRolesError(guilds, guild_id, role_cache, role_ids) ==
    IF ~ EmojiGuildCached(guilds, guild_id) THEN "AttributeError"
    ELSE IF NoRoleIds(role_ids) THEN ""
    ELSE IF \E k \in 1..Len(role_ids) : role_ids[k] \notin role_cache
         THEN "KeyError"
    ELSE ""

\* The list the property returns when it raises nothing.
EmojiRoles(guild_id, role_ids) ==
    IF NoRoleIds(role_ids) THEN <<DefaultRoleOf(guild_id)>>
    ELSE [k \in 1..Len(role_ids) |-> RoleOf(guild_id, role_ids[k])]

EmojiIdle ==
    /\ e_pc = "idle"
    /\ e_guilds = {}
    /\ e_guild_id = 0
    /\ e_role_cache = {}
    /\ e_role_ids = <<>>
    /\ e_result = <<>>
    /\ e_error = ""

\* An emoji and the caches its roles property reads; guild_id 0 is None.
EmojiInit ==
    /\ e_pc = "call"
    /\ e_guilds \in SUBSET GuildIds
    /\ e_guild_id \in {0} \cup GuildIds
    /\ e_role_cache \in SUBSET RoleIds
    /\ e_role_ids \in RoleIdLists
    /\ e_result = <<>>
    /\ e_error = ""

\* emoji.roles returns a list.
EmojiRolesReturns ==
    /\ UNCHANGED non_emoji_vars
    /\ e_pc = "call"
    /\ EmojiRolesError(e_guilds, e_guild_id, e_role_cache, e_role_ids) = ""
    /\ e_result' = EmojiRoles(e_guild_id, e_role_ids)
    /\ e_pc' = "returned"
    /\ UNCHANGED <<e_guilds, e_guild_id, e_role_cache, e_role_ids, e_error>>

\* emoji.roles raises: the guild is None, or a role id is not in guild.roles.
EmojiRolesRaises ==
    /\ UNCHANGED non_emoji_vars
    /\ e_pc = "call"
    /\ EmojiRolesError(e_guilds, e_guild_id, e_role_cache, e_role_ids) # ""
    /\ e_error' = EmojiRolesError(e_guilds, e_guild_id, e_role_cache, e_role_ids)
    /\ e_pc' = "raised"
    /\ UNCHANGED <<e_guilds, e_guild_id, e_role_cache, e_role_ids, e_result>>

EmojiNext ==
    \/ EmojiRolesReturns
    \/ EmojiRolesRaises

-----------------------------------------------------------------------------
(* handle_shard and the handle_dispatches tasks of one shard *)

\* The number of dispatches the gateway delivers and the longest lazy
\* sequence a translation routine returns, in this model.
MaxDispatches == 2
MaxLazy == 2

\* What the translation routine of a dispatch returns: a value, an
\* awaitable, or an async generator of so many items.
RoutineResults ==
    [kind : {"value", "awaitable"}, items : {0}]
        \cup [kind : {"asyncgen"}, items : 0..MaxLazy]

\* The dispatches the gateway of the shard delivers, in order.
DispatchRuns == UNION {[1..n -> RoutineResults] : n \in 1..MaxDispatches}

OverlapIdle ==
    /\ o_dispatches = <<>>
    /\ o_ready = FALSE
    /\ o_delivered = 0
    /\ o_tasks = <<>>
    /\ o_left = <<>>
    /\ o_fired = <<>>

\* The shard is consuming the events of its gateway.
OverlapInit ==
    /\ o_dispatches \in DispatchRuns
    /\ o_ready \in BOOLEAN
    /\ o_delivered = 0
    /\ o_tasks = [k \in 1..Len(o_dispatches) |-> "none"]
    /\ o_left = [k \in 1..Len(o_dispatches) |-> o_dispatches[k].items]
    /\ o_fired = <<>>

\* handle_shard takes the next gateway_dispatch_received event and awaits
\* fire_event: the event passes the gate and the registry schedules
\* handle_dispatches for it as a task of its own.
ShardFiresDispatch ==
    /\ UNCHANGED non_overlap_vars
    /\ o_delivered < Len(o_dispatches)
    /\ PassesGate(EV_gateway_dispatch_received, o_ready)
    /\ o_delivered' = o_delivered + 1
    /\ o_tasks' = [o_tasks EXCEPT ![o_delivered + 1] = "scheduled"]
    /\ UNCHANGED <<o_dispatches, o_ready, o_left, o_fired>>

\* A scheduled handle_dispatches task starts, the tasks starting in the
\* order they were scheduled, and runs to its first await that suspends: a
\* value is fired at once; an awaitable and an async generator are awaited.
HandleDispatchesStarts ==
    /\ UNCHANGED non_overlap_vars
    /\ \E k \in 1..o_delivered :
        /\ o_tasks[k] = "scheduled"
        /\ \A j \in 1..(k - 1) : o_tasks[j] # "scheduled"
        /\ IF o_dispatches[k].kind = "value"
           THEN /\ o_fired' = Append(o_fired, k)
                /\ o_tasks' = [o_tasks EXCEPT ![k] = "done"]
           ELSE /\ o_fired' = o_fired
                /\ o_tasks' = [o_tasks EXCEPT ![k] =
                       IF o_dispatches[k].kind = "awaitable"
                       THEN "awaiting" ELSE "iterating"]
    /\ UNCHANGED <<o_dispatches, o_ready, o_delivered, o_left>>

\* result = await result is answered: the result is fired.
HandleDispatchesResumes ==
    /\ UNCHANGED non_overlap_vars
    /\ \E k \in 1..o_delivered :
        /\ o_tasks[k] = "awaiting"
        /\ o_fired' = Append(o_fired, k)
        /\ o_tasks' = [o_tasks EXCEPT ![k] = "done"]
    /\ UNCHANGED <<o_dispatches, o_ready, o_delivered, o_left>>

\* async for i in gen: the generator yields its next item, which is fired.
HandleDispatchesIterates ==
    /\ UNCHANGED non_overlap_vars
    /\ \E k \in 1..o_delivered :
        /\ o_tasks[k] = "iterating"
        /\ o_left[k] > 0
        /\ o_left' = [o_left EXCEPT ![k] = @ - 1]
        /\ o_fired' = Append(o_fired, k)
    /\ UNCHANGED <<o_dispatches, o_ready, o_delivered, o_tasks>>

\* The generator is exhausted: handle_dispatches returns.
HandleDispatchesGenEnds ==
    /\ UNCHANGED non_overlap_vars
    /\ \E k \in 1..o_delivered :
        /\ o_tasks[k] = "iterating"
        /\ o_left[k] = 0
        /\ o_tasks' = [o_tasks EXCEPT ![k] = "done"]
    /\ UNCHANGED <<o_dispatches, o_ready, o_delivered, o_left, o_fired>>

OverlapNext ==
    \/ ShardFiresDispatch
    \/ HandleDispatchesStarts
    \/ HandleDispatchesResumes
    \/ HandleDispatchesIterates
    \/ HandleDispatchesGenEnds

-----------------------------------------------------------------------------
(* get_gateway_url, called by the shard tasks of one run *)

\* The largest shard count and the number of get_gateway_url calls a shard
\* makes in this model.
MaxUrlShards == 2
MaxUrlCalls == 2

\* if self._gw_url: return self._gw_url
UrlCached(gw_url) == gw_url

UrlIdle ==
    /\ w_run = "idle"
    /\ w_autoshard = FALSE
    /\ w_shard_count = 0
    /\ w_gw_url = FALSE
    /\ w_pc = <<>>
    /\ w_calls = <<>>
    /\ w_requests = 0
    /\ w_late_requests = 0

\* run_async(shard_count=..., autoshard=...) is called on a new client:
\* self._gw_url is None.
UrlInit ==
    /\ w_run = "run_async"
    /\ w_autoshard \in BOOLEAN
    /\ w_shard_count \in 1..MaxUrlShards
    /\ w_gw_url = FALSE
    /\ w_pc = [i \in 1..w_shard_count |-> "none"]
    /\ w_calls = [i \in 1..w_shard_count |-> 0]
    /\ w_requests = 0
    /\ w_late_requests = 0

\* autoshard: get_shard_count is answered and stores the gateway URL.
RunGetsShardCount ==
    /\ UNCHANGED non_url_vars
    /\ w_run = "run_async"
    /\ w_autoshard
    /\ w_gw_url' = TRUE
    /\ w_run' = "start"
    /\ UNCHANGED <<w_autoshard, w_shard_count, w_pc, w_calls, w_requests,
                   w_late_requests>>

\* start spawns the handle_shard tasks.
RunSpawnsShards ==
    /\ UNCHANGED non_url_vars
    /\ \/ w_run = "run_async" /\ ~ w_autoshard
       \/ w_run = "start"
    /\ w_pc' = [i \in 1..w_shard_count |-> "call"]
    /\ w_run' = "spawned"
    /\ UNCHANGED <<w_autoshard, w_shard_count, w_gw_url, w_calls, w_requests,
                   w_late_requests>>

\* A shard calls get_gateway_url and the cached URL is returned.
GetGatewayUrlCached ==
    /\ UNCHANGED non_url_vars
    /\ \E i \in 1..w_shard_count :
        /\ w_pc[i] = "call"
        /\ UrlCached(w_gw_url)
        /\ w_pc' = [w_pc EXCEPT ![i] = "from_token"]
        /\ w_calls' = [w_calls EXCEPT ![i] = @ + 1]
    /\ UNCHANGED <<w_run, w_autoshard, w_shard_count, w_gw_url, w_requests,
                   w_late_requests>>

\* A shard calls get_gateway_url, finds no URL and awaits
\* self.http.get_gateway_url().
GetGatewayUrlRequests ==
    /\ UNCHANGED non_url_vars
    /\ \E i \in 1..w_shard_count :
        /\ w_pc[i] = "call"
        /\ ~ UrlCached(w_gw_url)
        /\ w_pc' = [w_pc EXCEPT ![i] = "await"]
        /\ w_calls' = [w_calls EXCEPT ![i] = @ + 1]
    /\ w_requests' = w_requests + 1
    /\ w_late_requests' = w_late_requests + (IF w_gw_url THEN 1 ELSE 0)
    /\ UNCHANGED <<w_run, w_autoshard, w_shard_count, w_gw_url>>

\* The request is answered: self._gw_url is set and returned.
GetGatewayUrlAnswered ==
    /\ UNCHANGED non_url_vars
    /\ \E i \in 1..w_shard_count :
        /\ w_pc[i] = "await"
        /\ w_pc' = [w_pc EXCEPT ![i] = "from_token"]
    /\ w_gw_url' = TRUE
    /\ UNCHANGED <<w_run, w_autoshard, w_shard_count, w_calls, w_requests,
                   w_late_requests>>

\* The request fails: except Exception in handle_shard, total_tries += 1,
\* continue -- the shard calls get_gateway_url again.
GetGatewayUrlRaises ==
    /\ UNCHANGED non_url_vars
    /\ \E i \in 1..w_shard_count :
        /\ w_pc[i] = "await"
        /\ w_pc' = [w_pc EXCEPT ![i] =
               IF w_calls[i] < MaxUrlCalls THEN "call" ELSE "ended"]
    /\ UNCHANGED <<w_run, w_autoshard, w_shard_count, w_gw_url, w_calls,
                   w_requests, w_late_requests>>

\* The connection made with the URL fails or ends: the loop of handle_shard
\* comes round to Gateway.from_token(..., await self.get_gateway_url(), ...).
ShardLoopsAgain ==
    /\ UNCHANGED non_url_vars
    /\ \E i \in 1..w_shard_count :
        /\ w_pc[i] = "from_token"
        /\ w_pc' = [w_pc EXCEPT ![i] =
               IF w_calls[i] < MaxUrlCalls THEN "call" ELSE "ended"]
    /\ UNCHANGED <<w_run, w_autoshard, w_shard_count, w_gw_url, w_calls,
                   w_requests, w_late_requests>>

UrlNext ==
    \/ RunGetsShardCount
    \/ RunSpawnsShards
    \/ GetGatewayUrlCached
    \/ GetGatewayUrlRequests
    \/ GetGatewayUrlAnswered
    \/ GetGatewayUrlRaises
    \/ ShardLoopsAgain

-----------------------------------------------------------------------------
(* Specifications *)

\* One shard task, from the call of handle_shard.
Init ==
    /\ ShardInit
    /\ DispatchIdle
    /\ MembersIdle
    /\ ProfileIdle
    /\ ConstructIdle
    /\ StartIdle
    /\ UsersIdle
    /\ GuildIdle
    /\ IterIdle
    /\ EmojiIdle
    /\ OverlapIdle
    /\ UrlIdle

Next == ShardNext

Spec == Init /\ [][Next]_vars

\* One run of handle_dispatches, from its call.
InitDispatch ==
    /\ ShardInit
    /\ DispatchInit
    /\ MembersIdle
    /\ ProfileIdle
    /\ ConstructIdle
    /\ StartIdle
    /\ UsersIdle
    /\ GuildIdle
    /\ IterIdle
    /\ EmojiIdle
    /\ OverlapIdle
    /\ UrlIdle

SpecDispatch == InitDispatch /\ [][DispatchNext]_vars

\* One call of download_guild_members.
InitMembers ==
    /\ ShardInit
    /\ DispatchIdle
    /\ MembersInit
    /\ ProfileIdle
    /\ ConstructIdle
    /\ StartIdle
    /\ UsersIdle
    /\ GuildIdle
    /\ IterIdle
    /\ EmojiIdle
    /\ OverlapIdle
    /\ UrlIdle

SpecMembers == InitMembers /\ [][MembersNext]_vars

\* One call of edit_profile.
InitProfile ==
    /\ ShardInit
    /\ DispatchIdle
    /\ MembersIdle
    /\ ProfileInit
    /\ ConstructIdle
    /\ StartIdle
    /\ UsersIdle
    /\ GuildIdle
    /\ IterIdle
    /\ EmojiIdle
    /\ OverlapIdle
    /\ UrlIdle

SpecProfile == InitProfile /\ [][ProfileNext]_vars

\* One construction of a Client.
InitConstruct ==
    /\ ShardInit
    /\ DispatchIdle
    /\ MembersIdle
    /\ ProfileIdle
    /\ ConstructInit
    /\ StartIdle
    /\ UsersIdle
    /\ GuildIdle
    /\ IterIdle
    /\ EmojiIdle
    /\ OverlapIdle
    /\ UrlIdle

SpecConstruct == InitConstruct /\ [][ConstructNext]_vars

\* One call of start.
InitStart ==
    /\ ShardInit
    /\ DispatchIdle
    /\ MembersIdle
    /\ ProfileIdle
    /\ ConstructIdle
    /\ StartInit
    /\ UsersIdle
    /\ GuildIdle
    /\ IterIdle
    /\ EmojiIdle
    /\ OverlapIdle
    /\ UrlIdle

SpecStart == InitStart /\ [][StartNext]_vars

\* get_user calls one after another, while the state layer caches and drops members.
InitUsers ==
    /\ ShardInit
    /\ DispatchIdle
    /\ MembersIdle
    /\ ProfileIdle
    /\ ConstructIdle
    /\ StartIdle
    /\ UsersInit
    /\ GuildIdle
    /\ IterIdle
    /\ EmojiIdle
    /\ OverlapIdle
    /\ UrlIdle

SpecUsers == InitUsers /\ [][UsersNext]_vars

\* One call of download_guild.
InitGuild ==
    /\ ShardInit
    /\ DispatchIdle
    /\ MembersIdle
    /\ ProfileIdle
    /\ ConstructIdle
    /\ StartIdle
    /\ UsersIdle
    /\ GuildInit
    /\ IterIdle
    /\ EmojiIdle
    /\ OverlapIdle
    /\ UrlIdle

SpecGuild == InitGuild /\ [][GuildNext]_vars

\* Element requests on one AsyncIteratorWrapper, one after another.
InitIter ==
    /\ ShardInit
    /\ DispatchIdle
    /\ MembersIdle
    /\ ProfileIdle
    /\ ConstructIdle
    /\ StartIdle
    /\ UsersIdle
    /\ GuildIdle
    /\ IterInit
    /\ EmojiIdle
    /\ OverlapIdle
    /\ UrlIdle

SpecIter == InitIter /\ [][IterNext]_vars

\* One read of Emoji.roles.
InitEmoji ==
    /\ ShardInit
    /\ DispatchIdle
    /\ MembersIdle
    /\ ProfileIdle
    /\ ConstructIdle
    /\ StartIdle
    /\ UsersIdle
    /\ GuildIdle
    /\ IterIdle
    /\ EmojiInit
    /\ OverlapIdle
    /\ UrlIdle

SpecEmoji == InitEmoji /\ [][EmojiNext]_vars

\* One shard delivering dispatches whose handle_dispatches runs are tasks of the event registry.
InitOverlap ==
    /\ ShardInit
    /\ DispatchIdle
    /\ MembersIdle
    /\ ProfileIdle
    /\ ConstructIdle
    /\ StartIdle
    /\ UsersIdle
    /\ GuildIdle
    /\ IterIdle
    /\ EmojiIdle
    /\ OverlapInit
    /\ UrlIdle

SpecOverlap == InitOverlap /\ [][OverlapNext]_vars

\* One call of download_guild_members against a source that answers by cursor; each request is answered.
InitCursor ==
    /\ ShardInit
    /\ DispatchIdle
    /\ CursorInit
    /\ ProfileIdle
    /\ ConstructIdle
    /\ StartIdle
    /\ UsersIdle
    /\ GuildIdle
    /\ IterIdle
    /\ EmojiIdle
    /\ OverlapIdle
    /\ UrlIdle

SpecCursor ==
    InitCursor /\ [][MembersNext]_vars /\ WF_vars(MembersNext)

\* One run of the client: the shard tasks ask for the gateway URL.
InitUrl ==
    /\ ShardInit
    /\ DispatchIdle
    /\ MembersIdle
    /\ ProfileIdle
    /\ ConstructIdle
    /\ StartIdle
    /\ UsersIdle
    /\ GuildIdle
    /\ IterIdle
    /\ EmojiIdle
    /\ OverlapIdle
    /\ UrlInit

SpecUrl == InitUrl /\ [][UrlNext]_vars

-----------------------------------------------------------------------------
(* Properties of fire_event and handle_shard, checked under Spec *)

\* A stream end that was a closed-connection error with another reason than
\* the library's own.
UnexpectedClose ==
    /\ last_end.kind = "closed"
    /\ last_end.reason # "Client closed connection"

\* C1: a fire_event call for a shard that is not ready goes on to the event
\* registry only when the name is connect, guild_streamed, guild_chunk,
\* guild_available or guild_sync, or begins with "gateway_"; for a ready shard
\* every call goes on to the registry.
C1_ReadyGate ==
    last_event.name # <<>> =>
        ( last_event.forwarded <=>
            \/ last_event.ready
            \/ last_event.name \in
                  {EV_connect, EV_guild_streamed, EV_guild_chunk,
                   EV_guild_available, EV_guild_sync}
            \/ /\ Len(last_event.name) >= 8
               /\ SubSeq(last_event.name, 1, 8) = <<"g","a","t","e","w","a","y","_">> )

\* guild_create fired for a shard that is not ready was dropped.
C1_Witness ==
    /\ last_event.name = EV_guild_create
    /\ ~ last_event.ready
    /\ ~ last_event.forwarded

\* C2: after a close with code 4004 or 4011, a held session id and a reason
\* other than "Client closed connection", handle_shard has ended by raising
\* that closed-connection error (so no reconnect and no new connection follow).
C2_FatalCloseEndsShard ==
    ( /\ UnexpectedClose
      /\ last_end.session
      /\ last_end.code \in {4004, 4011} )
    => /\ pc = "raised"
       /\ error = "WebsocketClosed"

\* C3: after a close with a reason other than "Client closed connection" and
\* either code 1000 or 4007 or no session id, the calls made are exactly
\* state._reset and then gw.reconnect(resume=False).
C3_FreshSession ==
    ( /\ UnexpectedClose
      /\ (last_end.code \in {1000, 4007} \/ ~ last_end.session) )
    => calls = <<"_reset", "reconnect(resume=False)">>

\* A 4007 close with a held session id, at the await of the reconnect.
C3_Witness ==
    /\ pc = "reconnect"
    /\ UnexpectedClose
    /\ last_end.code = 4007
    /\ last_end.session
    /\ calls = <<"_reset", "reconnect(resume=False)">>

\* C4: after a close with a held session id, a reason other than "Client
\* closed connection" and a code outside {1000, 4007, 4004, 4011}, the only
\* call made is gw.reconnect(resume=True): there is no state reset.
C4_Resume ==
    ( /\ UnexpectedClose
      /\ last_end.session
      /\ last_end.code \notin {1000, 4007, 4004, 4011} )
    => calls = <<"reconnect(resume=True)">>

\* A 4000 close with a held session id, at the await of the reconnect.
C4_Witness ==
    /\ pc = "reconnect"
    /\ UnexpectedClose
    /\ last_end.code = 4000
    /\ last_end.session
    /\ calls = <<"reconnect(resume=True)">>

\* C5: after a close whose reason is exactly "Client closed connection",
\* whatever the code and the session id, handle_shard has returned: no call
\* was made and no exception left it.
C5_IntentionalShutdown ==
    ( /\ last_end.kind = "closed"
      /\ last_end.reason = "Client closed connection" )
    => /\ pc = "returned"
       /\ calls = <<>>
       /\ error = ""

\* The library's own close with the fatal code 4004 and a held session id.
C5_Witness ==
    /\ pc = "returned"
    /\ last_end.reason = "Client closed connection"
    /\ last_end.code = 4004
    /\ last_end.session

\* C6: the failure count is within 0..10 and is 0 while dispatches are
\* consumed; once 10 connection attempts in a row have failed no further
\* attempt can be made and the shard task ends with the give-up failure.
C6_RetryBudget ==
    /\ total_tries \in 0..10
    /\ failed_connects \in 0..10
    /\ pc = "consume" => total_tries = 0
    /\ failed_connects = 10 =>
           /\ ~ ENABLED ConnectFails
           /\ ~ ENABLED ConnectSucceeds
           /\ \/ pc = "connect" /\ ENABLED GiveUp
              \/ pc = "raised" /\ error = "RuntimeError"

\* Ten failed attempts in a row, and the give-up failure raised.
C6_Witness ==
    /\ failed_connects = 10
    /\ pc = "raised"
    /\ error = "RuntimeError"

\* C7: after a reconnect request of the server the only call made is
\* gw.reconnect(resume=True), with or without a session id: no state reset,
\* and no failure is counted on the way to that call.
C7_ReconnectRequest ==
    last_end.kind = "reconnect_request" =>
        /\ calls = <<"reconnect(resume=True)">>
        /\ pc = "reconnect" => total_tries = 0

\* A reconnect request received while no session id is held.
C7_Witness ==
    /\ pc = "reconnect"
    /\ last_end.kind = "reconnect_request"
    /\ ~ last_end.session
    /\ calls = <<"reconnect(resume=True)">>

-----------------------------------------------------------------------------
(* Properties of handle_dispatches, checked under SpecDispatch *)

\* C8: when the routine or an event firing raised anything but the
\* chunk-request signal, the gateway was closed with code 1006 and reason
\* "Internal client error" and the failure that leaves handle_dispatches is
\* the one that was raised.
C8_UnexpectedFailureClosesGateway ==
    ( /\ d_pc = "done"
      /\ d_raised \notin {"", "ChunkGuilds"} )
    => /\ d_closed = [code |-> 1006, reason |-> "Internal client error"]
       /\ d_error = d_raised

\* The events the claim gives for a single result.
C9_ForValue(v) ==
    IF v.t = "str"
      THEN << [name |-> v.chars, args |-> <<>>] >>
      ELSE << [name |-> v.elems[1], args |-> SubSeq(v.elems, 2, Len(v.elems))] >>

\* The events the claim gives for the yielded tuples, in yield order.
C9_ForItems(s) ==
    [k \in 1..Len(s) |-> [name |-> s[k][1], args |-> SubSeq(s[k], 2, Len(s[k]))]]

\* C9: when a routine exists and nothing fails, a plain name fires one event
\* of that name without arguments, a tuple (also as the result of an awaited
\* computation) fires one event named by its first element with the others as
\* arguments, and an async generator fires one event per yielded tuple in
\* yield order and nothing more.
C9_EventsPerDispatch ==
    ( /\ d_pc = "done"
      /\ HandleName(d_name) \in StateRoutines
      /\ d_raised = "" )
    => /\ d_error = ""
       /\ d_routine.kind \in {"value", "awaitable"} =>
              d_fired = C9_ForValue(d_routine.value)
       /\ d_routine.kind = "asyncgen" =>
              /\ Len(d_fired) = Len(d_routine.items)
              /\ d_fired = C9_ForItems(d_routine.items)

\* An awaited computation gave a tuple with two arguments, fired as one event.
C9_Witness ==
    /\ d_pc = "done"
    /\ d_routine.kind = "awaitable"
    /\ d_routine.value = PyTuple(<<EV_guild_chunk, ARG_guild, ARG_member>>)
    /\ d_fired = << [name |-> EV_guild_chunk, args |-> <<ARG_guild, ARG_member>>] >>

\* C10: for a dispatch name with no handle_<lower-cased name> routine,
\* handle_dispatches ends having fired nothing, raised nothing, and neither
\* closed the gateway nor sent a chunk request on it.
C10_UnknownDispatch ==
    ( /\ d_pc = "done"
      /\ HandleName(d_name) \notin StateRoutines )
    => /\ d_fired = <<>>
       /\ d_raised = ""
       /\ d_error = ""
       /\ d_closed = NotClosed
       /\ d_chunks = 0

\* The dispatch READ, which no routine matches (handle_ready is not matched
\* by a prefix), was dropped.
C10_Witness ==
    /\ d_pc = "done"
    /\ d_name = DN_READ
    /\ d_fired = <<>>
    /\ d_error = ""

\* C11: when the routine, the awaited result or the async generator raised
\* the chunk-request signal, _get_chunks was called once on the gateway, the
\* gateway was not closed and nothing left handle_dispatches.
C11_ChunkRequest ==
    ( /\ d_pc = "done"
      /\ d_raised = "ChunkGuilds" )
    => /\ d_chunks = 1
       /\ d_closed = [code |-> 0, reason |-> ""]
       /\ d_error = ""

\* An async generator yielded one tuple and then raised the signal.
C11_Witness ==
    /\ d_pc = "done"
    /\ d_routine.kind = "asyncgen"
    /\ d_raised = "ChunkGuilds"
    /\ Len(d_fired) = 1
    /\ d_chunks = 1

\* C12: while the shard is not ready, every event handle_dispatches hands to
\* the event registry (and so to the registered handlers) is named connect,
\* guild_streamed, guild_chunk, guild_available or guild_sync, or begins with
\* "gateway_".
C12_DispatchEventsGated ==
    ~ ready =>
        \A k \in 1..Len(d_fired) :
            \/ d_fired[k].name \in
                  {EV_connect, EV_guild_streamed, EV_guild_chunk,
                   EV_guild_available, EV_guild_sync}
            \/ /\ Len(d_fired[k].name) >= 8
               /\ SubSeq(d_fired[k].name, 1, 8) = <<"g","a","t","e","w","a","y","_">>

-----------------------------------------------------------------------------
(* Properties of download_guild_members, checked under SpecMembers *)

\* The first page that is empty or shorter than the limit.
C13_LastPage ==
    CHOOSE k \in 1..(Len(m_sizes) + 1) :
        /\ Len(PageOf(m_sizes, k)) < m_limit
        /\ \A j \in 1..(k - 1) : Len(PageOf(m_sizes, j)) >= m_limit

RECURSIVE C13_Concat(_)
\* The pages 1..k one after the other.
C13_Concat(k) ==
    IF k = 0 THEN <<>> ELSE C13_Concat(k - 1) \o PageOf(m_sizes, k)

\* C13: an exhaustive download requests the pages up to and including the
\* first one that is empty or shorter than the limit, and returns the pages it
\* received one after the other; sizes 1000, 1000, 400 with limit 1000 give 3
\* requests and 2400 members, sizes 1000, 1000 and then an empty page give 3
\* requests and 2000 members.
C13_ExhaustiveDownload ==
    ( /\ m_pc = "done"
      /\ m_get_all )
    => /\ Len(m_requests) = C13_LastPage
       /\ m_members = C13_Concat(C13_LastPage)
       /\ (m_sizes = <<1000, 1000, 400>> /\ m_limit = 1000) =>
              Len(m_requests) = 3 /\ Len(m_members) = 2400
       /\ (m_sizes = <<1000, 1000>> /\ m_limit = 1000) =>
              Len(m_requests) = 3 /\ Len(m_members) = 2000

\* The download of pages of 1000, 1000 and 400 members has ended.
C13_Witness ==
    /\ m_pc = "done"
    /\ m_get_all
    /\ m_sizes = <<1000, 1000, 400>>
    /\ m_limit = 1000
    /\ Len(m_requests) = 3
    /\ Len(m_members) = 2400

-----------------------------------------------------------------------------
(* Properties of edit_profile, checked under SpecProfile *)

\* The usernames the claim has rejected.
C14_Invalid(u) ==
    \/ \E i \in 1..Len(u) : u[i] \in {"@", ":"}
    \/ \E i \in 1..(Len(u) - 2) : u[i] = Backtick /\ u[i + 1] = Backtick /\ u[i + 2] = Backtick
    \/ u \in {UN_discordtag, UN_everyone, UN_here}
    \/ Len(u) < 2
    \/ Len(u) > 32

\* C14: with a bot account or a password, a call with a username that
\* contains "@", ":" or three backticks, or is discordtag, everyone or here,
\* or is not 2 to 32 characters long has failed without a request; a call with
\* any other username has sent exactly one edit request.
C14_UsernameValidation ==
    ( /\ p_pc = "done"
      /\ p_is_bot \/ p_password
      /\ p_username.given )
    => IF C14_Invalid(p_username.chars)
         THEN p_error # "" /\ p_edits = <<>>
         ELSE p_error = "" /\ Len(p_edits) = 1

\* The part of C14 that holds: the usernames that are not the empty str.
C14_NonEmptyUsernames ==
    p_username.chars # <<>> => C14_UsernameValidation

-----------------------------------------------------------------------------
(* Properties of Client.__init__, checked under SpecConstruct *)

\* C15: a construction with both BOT (1) and USERBOT (2) in the flags has
\* failed, with no HTTP layer built; every other construction has succeeded,
\* with the HTTP layer in bot mode exactly when BOT is in the flags.
C15_BotTypeValidation ==
    c_pc = "done" =>
        IF c_bot_type % 4 = 3
          THEN /\ c_error = "ValueError"
               /\ ~ c_http.built
               /\ c_handlers = {}
          ELSE /\ c_error = ""
               /\ c_http.built
               /\ c_http.bot <=> (c_bot_type % 2 = 1)

\* BOT | USERBOT | ONLY_USER was rejected.
C15_Witness ==
    /\ c_pc = "done"
    /\ c_bot_type = 11
    /\ c_error = "ValueError"
    /\ ~ c_http.built

-----------------------------------------------------------------------------
(* Properties of Client.start, checked under SpecStart *)

\* C16: the tasks spawned are those of the shard ids 0, 1, ... in turn, all of
\* 0..shard_count-1 and no other once the loop has ended; no task is spawned
\* before the task manager is handed to the event registry nor, with BOT set,
\* before the application info is stored; without BOT no application info is
\* requested.
C16_StartSpawnsShards ==
    /\ \A k \in 1..Len(s_spawned) : s_spawned[k] = k - 1
    /\ Len(s_spawned) <= s_shard_count
    /\ s_pc = "wait" => Len(s_spawned) = s_shard_count
    /\ s_spawned # <<>> => s_task_manager
    /\ (s_spawned # <<>> \/ s_task_manager) /\ s_bot_type % 2 = 1 =>
           s_application_info /\ s_app_info_requests = 1
    /\ s_bot_type % 2 = 0 => s_app_info_requests = 0 /\ ~ s_application_info

\* A bot client has spawned its three shards.
C16_Witness ==
    /\ s_pc = "wait"
    /\ s_bot_type = 9
    /\ s_shard_count = 3
    /\ s_spawned = <<0, 1, 2>>
    /\ s_application_info

-----------------------------------------------------------------------------
(* Properties of Client.get_user, checked under SpecUsers *)

\* One step of get_user.
C17_GetUserStep ==
    GetUserCached \/ GetUserRequests \/ GetUserFetched \/ GetUserHttpRaises

\* C17: get_user issues an HTTP user fetch exactly when the id was absent from
\* the user pool at the call; when it returns a fetched user that no cached
\* member references, the user is absent from the pool; no step of get_user
\* removes from the pool a user that a cached member references.
C17_CacheFirstDecache ==
    /\ [](u_calls > 0 => (u_requests = 1 <=> ~ u_in_pool))
    /\ [](u_pc = "returned" /\ u_requests = 1 /\ ~ Referenced(u_members, u_id)
             => u_id \notin u_users)
    /\ [][C17_GetUserStep =>
             \A u \in u_users : Referenced(u_members, u) => u \in u_users']_vars

\* A second get_user call for an unreferenced user has fetched it again and
\* left it out of the pool.
C17_Witness ==
    /\ u_pc = "returned"
    /\ u_calls = 2
    /\ u_requests = 1
    /\ ~ Referenced(u_members, u_id)
    /\ u_id \notin u_users
    /\ \E u \in u_users : Referenced(u_members, u)

-----------------------------------------------------------------------------
(* Properties of Client.download_guild, checked under SpecGuild *)

\* C18, as stated: download_guild without full makes one HTTP request, returns
\* a fresh guild and leaves the guild map of the state layer as it was.
C18_GuildMapUntouched ==
    g_pc = "returned" /\ ~ g_full =>
        /\ g_log = <<"http.get_guild">>
        /\ g_result.kind = "guild" /\ g_result.fresh
        /\ g_guilds = g_before

\* C18, amended: download_guild without full makes one HTTP request (the guild
\* fetch), returns a fresh available guild and stores it in the guild map under
\* guild_id, replacing the entry there; every other entry stays as it was, with
\* or without full. Only with full are the member and channel downloads made,
\* in that order, and the stored and returned guild's member and channel caches
\* replaced by the downloaded ones.
C18_GuildStored ==
    /\ \A i \in GuildIds \ {g_guild_id} : g_guilds[i] = g_before[i]
    /\ ~ g_full => g_log \in {<<>>, <<"http.get_guild">>}
    /\ g_pc = "returned" /\ ~ g_full =>
        /\ g_log = <<"http.get_guild">>
        /\ g_result = NewGuild
        /\ g_guilds[g_guild_id] = g_result
    /\ g_pc = "returned" /\ g_full =>
        /\ g_log = <<"http.get_guild", "download_guild_members", "download_channels">>
        /\ g_result = [NewGuild EXCEPT !.members = "download", !.channels = "download"]
        /\ g_guilds[g_guild_id] = g_result
    /\ g_pc = "raised" /\ Len(g_log) = 1 => g_guilds = g_before

\* download_guild(1) without full has returned; guild 1 was cached before and
\* its entry is now the new guild, while guild 2 is still the cached one.
C18_Witness ==
    /\ g_pc = "returned"
    /\ ~ g_full
    /\ g_guild_id = 1
    /\ g_before[1] \in CachedGuilds
    /\ g_guilds[1] = NewGuild
    /\ g_guilds[2] \in CachedGuilds

-----------------------------------------------------------------------------
(* Properties of Client.events_handled, checked under Spec *)

\* C19: at any time and for every dispatch type, events_handled is the number
\* of dispatches of that type handled since the client started, those handled
\* on connections closed and replaced since then included.
C19_EventsHandledSinceStartup ==
    \A t \in HandledTypes : EventsHandled[t] = handled_total[t]

-----------------------------------------------------------------------------
(* Properties of AsyncIteratorWrapper, checked under SpecIter *)

\* C20: the wrapped fetch runs exactly once, on the first element request;
\* when it has returned, the elements delivered so far followed by those
\* still buffered are the fetch result, so the elements come in fetch order,
\* each once; every request is answered by an element or by end-of-sequence,
\* and end-of-sequence is signalled only once all elements are delivered, also
\* on repeated requests and when the fetch returned nothing.
C20_FetchOnceInOrder ==
    /\ it_fetches = (IF it_requests = 0 THEN 0 ELSE 1)
    /\ it_coro = "finished" =>
        /\ it_filled
        /\ it_delivered \o it_items = it_result
        /\ it_errors = 0
        /\ it_requests = Len(it_delivered) + it_stops
        /\ it_stops > 0 => it_delivered = it_result

\* Two different elements were delivered in fetch order, then two requests
\* ended the sequence.
C20_Witness ==
    /\ it_result = <<"a", "b">>
    /\ it_delivered = <<"a", "b">>
    /\ it_stops = 2
    /\ it_requests = 4
    /\ it_fetches = 1

-----------------------------------------------------------------------------
(* Properties of Emoji.roles, checked under SpecEmoji *)

\* C21: for an emoji whose guild is cached, an empty role_ids gives exactly
\* the guild's default role; role_ids r1..rk, all in the guild's role cache,
\* gives exactly the k cached roles for r1..rk in the same order.
C21_EmojiRoles ==
    e_pc \in {"returned", "raised"} /\ e_guild_id \in e_guilds =>
        /\ e_role_ids = <<>> =>
               e_pc = "returned" /\ e_result = <<[guild |-> e_guild_id, id |-> 0]>>
        /\ e_role_ids # <<>> /\ (\A k \in 1..Len(e_role_ids) : e_role_ids[k] \in e_role_cache) =>
               /\ e_pc = "returned"
               /\ Len(e_result) = Len(e_role_ids)
               /\ \A k \in 1..Len(e_role_ids) :
                      e_result[k] = [guild |-> e_guild_id, id |-> e_role_ids[k]]

\* Two cached roles were returned in the order of role_ids, which is not the
\* order of their ids.
C21_Witness ==
    /\ e_pc = "returned"
    /\ e_guild_id = 1
    /\ e_role_ids = <<2, 1>>
    /\ e_result = <<[guild |-> 1, id |-> 2], [guild |-> 1, id |-> 1]>>

-----------------------------------------------------------------------------
(* Properties of the handle_dispatches runs of one shard, checked under
   SpecOverlap *)

\* C22: for two dispatches delivered in that order by the gateway of one
\* shard, the handle_dispatches run of the first has finished before the run
\* of the second starts, and every event derived from the first is fired
\* before any event derived from the second.
C22_RunsNeverOverlap ==
    /\ \A i, j \in 1..Len(o_tasks) :
           i < j /\ o_tasks[j] \in {"awaiting", "iterating", "done"}
               => o_tasks[i] = "done"
    /\ \A p, q \in 1..Len(o_fired) : p < q => o_fired[p] <= o_fired[q]

-----------------------------------------------------------------------------
(* Properties of the ways handle_shard ends, checked under Spec *)

\* C23: handle_shard has ended only by raising the give-up failure, by
\* propagating a closed-connection error with code 4004 or 4011, or by
\* returning after a close with the reason "Client closed connection"; no
\* other failure, raised while an event is fired or by gw.reconnect, ends it.
C23_WaysToEnd ==
    pc \in {"returned", "raised"} =>
        \/ pc = "raised" /\ error = "RuntimeError"
        \/ /\ pc = "raised"
           /\ error = "WebsocketClosed"
           /\ last_end.kind = "closed"
           /\ last_end.code \in {4004, 4011}
        \/ /\ pc = "returned"
           /\ last_end.kind = "closed"
           /\ last_end.reason = CLIENT_CLOSED

-----------------------------------------------------------------------------
(* Properties of the exhaustive download against a cursor-driven source,
   checked under SpecCursor *)

\* The requests and the result of a get_all download: the first request has
\* cursor 0, every later one the id of the last member of the page before it
\* (all pages before it were full), and the members returned are the members
\* of the guild, each once.
C24_CursorsAndResult ==
    m_source = "cursor" /\ m_get_all =>
        /\ \A k \in 1..Len(m_requests) :
               /\ m_requests[k].limit = m_limit
               /\ m_requests[k].after =
                      (IF k = 1 THEN 0 ELSE m_member_data[(k - 1) * m_limit])
        /\ m_pc = "done" =>
               /\ Len(m_members) = Cardinality(m_guild)
               /\ {m_members[i] : i \in 1..Len(m_members)} = m_guild

\* C24: against a source that answers with the limit members of smallest id
\* above the cursor, download_guild_members(get_all=True) terminates; its
\* first request has cursor 0 whatever the caller's after, every later request
\* the id of the last member of the preceding page; the result holds every
\* member of the guild exactly once.
C24_PaginationTerminatesComplete ==
    /\ []C24_CursorsAndResult
    /\ <>(m_pc = "done")

\* Three members were downloaded with limit 2 in two requests, the caller's
\* after = 1 unused.
C24_Witness ==
    /\ m_source = "cursor"
    /\ m_get_all
    /\ m_pc = "done"
    /\ m_after = 1
    /\ m_guild = {1, 2, 3}
    /\ m_requests = <<[after |-> 0, limit |-> 2], [after |-> 2, limit |-> 2]>>
    /\ m_members = <<1, 2, 3>>

-----------------------------------------------------------------------------
(* Properties of get_gateway_url, checked under SpecUrl *)

\* C25: in a run without autosharding that starts two or more shards, at most
\* one HTTP gateway-URL request is issued in total, and none is issued once
\* the cached URL is set.
C25_UrlFetchedAtMostOnce ==
    /\ ~ w_autoshard /\ w_shard_count >= 2 => w_requests <= 1
    /\ w_late_requests = 0

-----------------------------------------------------------------------------
(* Properties of the gateways handle_shard consumes, checked under Spec *)

\* C26: the gateway whose events handle_shard consumes is never one whose
\* stream has already ended, whatever became of its reconnect; it is a
\* gateway built by Gateway.from_token, and it is the one registered for the
\* shard in self._gateways.
C26_StreamConsumedOnce ==
    /\ pc = "consume" =>
        /\ gw \in 1..gw_count
        /\ gw \notin ended_gws
        /\ gateways = gw
    /\ pc = "reconnect" => gw \in ended_gws

\* A second gateway is consumed after the stream of the first ended with a
\* close and its reconnect was made.
C26_Witness ==
    /\ pc = "consume"
    /\ gw = 2
    /\ gateways = 2
    /\ ended_gws = {1}
    /\ last_end.kind = "closed"
    /\ last_event # NoEvent

=============================================================================
